---- MODULE Spec2Model ----
(***************************************************************************)
(* A model of the simulation core of Greyreach.py: the main loop's frame   *)
(* pipeline (event handling, firing, sprite updates, the collision passes, *)
(* the door check), level setup, the Nanobot's resource bookkeeping,       *)
(* generate_level and calculate_visible_tiles.                             *)
(*                                                                         *)
(* Abstractions.  The frame pipeline keeps no pixel positions.  What the   *)
(* code reads of them are the results of its rectangle tests (pygame.      *)
(* sprite.spritecollide, collide_rect, the distance tests of targeting and *)
(* of Bullet.update); each test's result is an input of the step that      *)
(* makes the test.  The movement code of Nanobot.update and of             *)
(* Sentinel.update is modelled on pixel rects and the wall grid on its own *)
(* (SpecMove).  Sentinels and cores, which carry no state of their own,    *)
(* are kept as the sizes of their sprite groups.  ammo_count is a float in *)
(* the code; the model keeps it as an exact multiple of the per-frame      *)
(* swirl drain SWIRL_AMMO_COST / FPS = 1/12, so one unit of ammo is        *)
(* AmmoUnit.  Particles and sound have no effect on the simulation and are *)
(* left out.  The variable since is a history variable: it counts player   *)
(* updates, and no other variable depends on it.                           *)
(***************************************************************************)
EXTENDS Integers, Sequences, FiniteSets, TLC

\* ---------------------------------------------------------------- constants
SCREEN_WIDTH == 1024
SCREEN_HEIGHT == 768
TILE_SIZE == 50
GRID_WIDTH == SCREEN_WIDTH \div TILE_SIZE
GRID_HEIGHT == SCREEN_HEIGHT \div TILE_SIZE
TOTAL_LEVELS == 10
CORES_NEEDED == 3
MOVE_SPEED == 5
BULLET_SPEED == 10
FIRE_COOLDOWN == 15
CRATE_HEALTH == 3
SWIRL_AMMO_COST == 5
FPS == 60
BULLET_SIZE == 8
NANOBOT_SIZE == (TILE_SIZE * 6) \div 10
CORE_SIZE == (TILE_SIZE * 4) \div 10
CRATE_SIZE == (TILE_SIZE * 7) \div 10
LIGHT_RADIUS == 200
SENTINEL_SPEED == 2
SENTINEL_SIZE == (TILE_SIZE * 5) \div 10

\* One unit of ammo, counted in per-frame swirl drains (SWIRL_AMMO_COST / FPS).
AmmoUnit == FPS \div SWIRL_AMMO_COST

\* ------------------------------------------------------------------- bounds
\* PLAYING frames simulated in one behaviour of Spec and SpecPlay.
MaxFrames == 3
\* Events delivered by pygame.event.get() in one loop iteration.
MaxEvents == 1
\* Crates of a level that a bullet or the player ever reaches.
MaxCrates == 1
\* Bullets in flight.
MaxBullets == 3
\* Uncollected pickups lying on the map.
MaxPowerUps == 1
\* Sentinels one bullet overlaps at once.
MaxBulletHits == 1
\* Frames of movement simulated in one behaviour of SpecMove.
MaxMoves == 3
\* PLAYING frames simulated in one behaviour of SpecCrate.
MaxCrateFrames == 2
\* PLAYING frames simulated in one behaviour of SpecFire.
MaxFireFrames == 2
\* PLAYING frames simulated in one behaviour of SpecCool.
MaxCoolFrames == 32
\* PLAYING frames simulated in one behaviour of SpecBuff, and the frames at its
\* start in which the player is near the pickup and the door.
MaxBuffFrames == 605
MaxNearFrames == 3
\* PLAYING frames simulated in one behaviour of SpecAmmo.
MaxAmmoFrames == 1500
\* Frames at the start of a behaviour of SpecAmmo in which SPACE may be held.
MaxSwirlFrames == 2

Min(a, b) == IF a < b THEN a ELSE b
Max(a, b) == IF a > b THEN a ELSE b

\* ------------------------------------------------------------------ Nanobot
NoNanobot == [is_none |-> TRUE]
IsNone(nb) == "is_none" \in DOMAIN nb

NewNanobot ==
  [max_health |-> 100, current_health |-> 100, ammo_count |-> 100 * AmmoUnit,
   cooldown_timer |-> 0,
   shield_active |-> FALSE, multi_shot_active |-> FALSE,
   shield_timer |-> 0, multi_shot_timer |-> 0,
   is_swirling |-> FALSE]

PowerUpTypes == {"shield", "multishot", "ammo", "health"}

\* apply_powerup with gains that are not clamped.
ApplyPowerupNoClamp(nb, p_type) ==
  IF p_type = "shield"
    THEN [nb EXCEPT !.shield_active = TRUE, !.shield_timer = 300]
  ELSE IF p_type = "multishot"
    THEN [nb EXCEPT !.multi_shot_active = TRUE, !.multi_shot_timer = 600]
  ELSE IF p_type = "ammo"
    THEN [nb EXCEPT !.ammo_count = nb.ammo_count + 50 * AmmoUnit]
  ELSE IF p_type = "health"
    THEN [nb EXCEPT !.current_health = nb.current_health + 25]
  ELSE nb

\* An apply_powerup whose buffs add their time to the time that is left.
ApplyPowerupAddsTime(nb, p_type) ==
  IF p_type = "shield"
    THEN [nb EXCEPT !.shield_active = TRUE, !.shield_timer = @ + 300]
  ELSE IF p_type = "multishot"
    THEN [nb EXCEPT !.multi_shot_active = TRUE, !.multi_shot_timer = @ + 600]
  ELSE IF p_type = "ammo"
    THEN [nb EXCEPT !.ammo_count = Min(999 * AmmoUnit, nb.ammo_count + 50 * AmmoUnit)]
  ELSE IF p_type = "health"
    THEN [nb EXCEPT !.current_health = Min(nb.max_health, nb.current_health + 25)]
  ELSE nb

ApplyPowerup(nb, p_type) ==
  IF p_type = "shield"
    THEN [nb EXCEPT !.shield_active = TRUE, !.shield_timer = 300]
  ELSE IF p_type = "multishot"
    THEN [nb EXCEPT !.multi_shot_active = TRUE, !.multi_shot_timer = 600]
  ELSE IF p_type = "ammo"
    THEN [nb EXCEPT !.ammo_count = Min(999 * AmmoUnit, nb.ammo_count + 50 * AmmoUnit)]
  ELSE IF p_type = "health"
    THEN [nb EXCEPT !.current_health = Min(nb.max_health, nb.current_health + 25)]
  ELSE nb

\* Timers of which the cooldown runs at twice the speed.
UpdateTimersFastCooldown(nb) ==
  LET st == IF nb.shield_timer > 0 THEN nb.shield_timer - 1 ELSE nb.shield_timer
      mt == IF nb.multi_shot_timer > 0 THEN nb.multi_shot_timer - 1 ELSE nb.multi_shot_timer
  IN [nb EXCEPT !.cooldown_timer = Max(0, nb.cooldown_timer - 2),
                !.shield_timer = st,
                !.shield_active = IF st = 0 THEN FALSE ELSE nb.shield_active,
                !.multi_shot_timer = mt,
                !.multi_shot_active = IF mt = 0 THEN FALSE ELSE nb.multi_shot_active]

\* The timers of Nanobot.update, in the order of the code.
UpdateTimers(nb) ==
  LET cd == IF nb.cooldown_timer > 0 THEN nb.cooldown_timer - 1 ELSE nb.cooldown_timer
      st == IF nb.shield_timer > 0 THEN nb.shield_timer - 1 ELSE nb.shield_timer
      mt == IF nb.multi_shot_timer > 0 THEN nb.multi_shot_timer - 1 ELSE nb.multi_shot_timer
  IN [nb EXCEPT !.cooldown_timer = cd,
                !.shield_timer = st,
                !.shield_active = IF st = 0 THEN FALSE ELSE nb.shield_active,
                !.multi_shot_timer = mt,
                !.multi_shot_active = IF mt = 0 THEN FALSE ELSE nb.multi_shot_active]

\* The swirl drain without the auto-deactivation at ammo 0.
UpdateSwirlNoStop(nb) ==
  IF nb.is_swirling
    THEN [nb EXCEPT !.ammo_count = IF nb.ammo_count > 0 THEN Max(0, nb.ammo_count - 1)
                                                         ELSE nb.ammo_count]
    ELSE nb

\* The swirl-shield part of Nanobot.update: the drain and the auto-deactivation.
UpdateSwirl(nb) ==
  IF nb.is_swirling
    THEN LET a == IF nb.ammo_count > 0 THEN Max(0, nb.ammo_count - 1) ELSE nb.ammo_count
         IN [nb EXCEPT !.ammo_count = a,
                       !.is_swirling = IF a <= 0 THEN FALSE ELSE nb.is_swirling]
    ELSE nb

NanobotUpdate(nb) == UpdateSwirl(UpdateTimers(nb))

\* A guard of fire_weapon without the test of the ammo.
CanFireAnyAmmo(nb, has_target, can_fire) ==
  /\ nb.cooldown_timer = 0
  /\ has_target
  /\ can_fire
  /\ ~nb.is_swirling

\* The guard of Nanobot.fire_weapon.
CanFire(nb, has_target, can_fire) ==
  /\ nb.cooldown_timer = 0
  /\ has_target
  /\ nb.ammo_count > 0
  /\ can_fire
  /\ ~nb.is_swirling

\* A multi-shot that does not look at the ammo the first bullet has left.
MultiShotAnyAmmo(nb) == nb.multi_shot_active

\* Whether a shot that passes the guard also fires the two multi-shot bullets.
MultiShot(nb) == nb.multi_shot_active /\ nb.ammo_count - AmmoUnit > 0

\* The Nanobot after fire_weapon.
FireWeapon(nb, has_target, can_fire) ==
  IF CanFire(nb, has_target, can_fire)
    THEN [nb EXCEPT !.ammo_count = IF MultiShot(nb) THEN nb.ammo_count - 2 * AmmoUnit
                                                    ELSE nb.ammo_count - AmmoUnit,
                    !.cooldown_timer = FIRE_COOLDOWN]
    ELSE nb

\* A bullet: whether its target is alive, whether it was spawned with the
\* multi-shot offset, how many times Bullet.update has moved it (2: twice or
\* more) and the frame of the shot it belongs to.
NewBullet(jitter, shot) == [homing |-> TRUE, jitter |-> jitter, moved |-> 0, shot |-> shot]

\* The bullets fire_weapon adds to the group.
FiredBullets(nb, has_target, can_fire, shot) ==
  IF ~CanFire(nb, has_target, can_fire) THEN << >>
  ELSE IF MultiShot(nb)
    THEN << NewBullet(FALSE, shot), NewBullet(TRUE, shot), NewBullet(TRUE, shot) >>
  ELSE << NewBullet(FALSE, shot) >>

\* ------------------------------------------------------------------ history
\* The frames a shield and a multi-shot buff last (apply_powerup).
ShieldFrames == 300
MultiShotFrames == 600

\* The history the model keeps next to the Nanobot: the number of calls of
\* Nanobot.update since the last shot that passed the guard of fire_weapon,
\* since the last shield pickup and since the last multi-shot pickup.  Each
\* count stops at the time the cooldown or the buff lasts, which is also its
\* value while the Nanobot has not fired or holds no buff: a new Nanobot has no
\* history, and a buff that a contact or a level setup has cleared has none.
SinceNever ==
  [shot |-> FIRE_COOLDOWN, shield |-> ShieldFrames, multishot |-> MultiShotFrames]

\* One more call of Nanobot.update.
SinceUpdate(h) ==
  [shot |-> Min(h.shot + 1, FIRE_COOLDOWN),
   shield |-> Min(h.shield + 1, ShieldFrames),
   multishot |-> Min(h.multishot + 1, MultiShotFrames)]

\* ------------------------------------------------------------ level setup
\* What generate_level returns to setup_level, as the sizes of the lists; the
\* crates are those of the level the run reaches.
NumSentinels(level_num) == 2 + level_num
NumCrates(level_num) == Min(5 + level_num * 2, MaxCrates)
NewCrate == [health |-> CRATE_HEALTH, in_group |-> TRUE]

\* A carry-over that adds the bonuses and leaves the buffs and the swirl alone.
CarryNanobotKeepsBuffs(nb) ==
  [nb EXCEPT !.current_health = Min(nb.max_health, nb.current_health + 20),
             !.ammo_count = Min(999 * AmmoUnit, nb.ammo_count + 50 * AmmoUnit)]

\* The else branch of setup_level: the Nanobot that is kept for the new level.
CarryNanobot(nb) ==
  [nb EXCEPT !.current_health = Min(nb.max_health, nb.current_health + 20),
             !.ammo_count = Min(999 * AmmoUnit, nb.ammo_count + 50 * AmmoUnit),
             !.shield_active = FALSE, !.multi_shot_active = FALSE,
             !.shield_timer = 0, !.multi_shot_timer = 0,
             !.is_swirling = FALSE]

\* setup_level on the world w (the Nanobot, the sprite groups, the counters).
SetupLevel(w, level_num) ==
  [w EXCEPT !.nanobot = IF IsNone(w.nanobot) \/ level_num = 1
                          THEN NewNanobot ELSE CarryNanobot(w.nanobot),
            !.sentinels = NumSentinels(level_num),
            !.crates = [c \in 1..NumCrates(level_num) |-> NewCrate],
            !.cores = CORES_NEEDED,
            !.bullets = << >>,
            !.powerups = << >>,
            !.current_cores = 0,
            !.at_door = FALSE,
            !.since = IF IsNone(w.nanobot) \/ level_num = 1
                        THEN SinceNever
                        ELSE [w.since EXCEPT !.shield = ShieldFrames,
                                             !.multishot = MultiShotFrames]]

\* ------------------------------------------------------------------- state
VARIABLES
  running,          \* the main loop's flag
  GAME_STATE,       \* "MENU", "PLAYING", "GAME_OVER" or "GAME_WIN"
  current_level, selected_level,
  nanobot,          \* NoNanobot or the Nanobot's fields
  current_cores,
  sentinels,        \* the size of the sentinels group
  hit_sentinels,    \* how many sentinels the contact pass found on the Nanobot
  crates,           \* crate -> [health, in_group]
  cores,            \* the size of the cores group
  bullets,          \* the bullets group, in the order the bullets were added
  powerups,         \* the kinds of the pickups in all_sprites, in order
  at_door,          \* collide_rect(nanobot, door)
  pc,               \* the place in the loop body
  frames,           \* PLAYING frames simulated so far
  gen,              \* generate_level's locals
  loot_rolls,       \* the values of loot_roll drawn in the current bullet pass
  mv,               \* the movement code's operands: game_map and two rects
  mouse_click,      \* mouse_click[0] of the frame, from line 710 to the firing
  target_enemy,     \* whether target_enemy is a sentinel, not None
  since,            \* history: player updates since the last shot and pickups
  vis               \* calculate_visible_tiles: its arguments and what it returns

vars == << running, GAME_STATE, current_level, selected_level, nanobot, current_cores,
           sentinels, hit_sentinels, crates, cores, bullets, powerups, at_door, pc,
           frames, gen, loot_rolls, mv, mouse_click, target_enemy, since,
           vis >>

\* The part of the state setup_level writes.
World ==
  [nanobot |-> nanobot, sentinels |-> sentinels, crates |-> crates, cores |-> cores,
   bullets |-> bullets, powerups |-> powerups, current_cores |-> current_cores,
   at_door |-> at_door, since |-> since]

Install(w) ==
  /\ nanobot' = w.nanobot
  /\ sentinels' = w.sentinels
  /\ crates' = w.crates
  /\ cores' = w.cores
  /\ bullets' = w.bullets
  /\ powerups' = w.powerups
  /\ current_cores' = w.current_cores
  /\ at_door' = w.at_door
  /\ since' = w.since

NoGen == [pc |-> "idle"]
NoMove == [pc |-> "idle"]
NoVis == [pc |-> "idle"]

Init ==
  /\ running = TRUE
  /\ GAME_STATE = "MENU"
  /\ current_level = 1
  /\ selected_level = 1
  /\ nanobot = NoNanobot
  /\ current_cores = 0
  /\ sentinels = 0
  /\ hit_sentinels = 0
  /\ crates = << >>
  /\ cores = 0
  /\ bullets = << >>
  /\ powerups = << >>
  /\ at_door = FALSE
  /\ pc = "top"
  /\ frames = 0
  /\ gen = NoGen
  /\ loot_rolls = << >>
  /\ mv = NoMove
  /\ mouse_click = FALSE
  /\ target_enemy = FALSE
  /\ vis = NoVis
  /\ since = SinceNever

\* ------------------------------------------------------------ event handling
\* The events the loop tells apart: a click carries the level whose button holds
\* event.pos (0: none).
Events ==
  {[kind |-> k, level |-> 0] : k \in {"QUIT", "UP", "DOWN", "RETURN", "SPACE"}}
  \cup {[kind |-> "CLICK", level |-> i] : i \in 0..TOTAL_LEVELS}

\* One pass of the body of "for event in pygame.event.get()" on
\* g = [running, GAME_STATE, current_level, selected_level, w].
HandleEvent(g, e) ==
  LET g1 == IF e.kind = "QUIT" THEN [g EXCEPT !.running = FALSE] ELSE g
      commit(lvl) == [g1 EXCEPT !.selected_level = lvl,
                                !.current_level = lvl,
                                !.w = SetupLevel(g1.w, lvl),
                                !.GAME_STATE = "PLAYING"]
  IN IF g1.GAME_STATE = "MENU"
       THEN IF e.kind = "UP"
              THEN [g1 EXCEPT !.selected_level = Max(1, g1.selected_level - 1)]
            ELSE IF e.kind = "DOWN"
              THEN [g1 EXCEPT !.selected_level = Min(TOTAL_LEVELS, g1.selected_level + 1)]
            ELSE IF e.kind = "RETURN"
              THEN commit(g1.selected_level)
            ELSE IF e.kind = "CLICK" /\ e.level >= 1
              THEN commit(e.level)
            ELSE g1
     ELSE IF g1.GAME_STATE \in {"GAME_OVER", "GAME_WIN"}
       THEN IF e.kind \in {"SPACE", "CLICK"}
              THEN [g1 EXCEPT !.GAME_STATE = "MENU", !.selected_level = 1]
              ELSE g1
     ELSE g1

RECURSIVE HandleEvents(_, _)
HandleEvents(g, evs) ==
  IF evs = << >> THEN g ELSE HandleEvents(HandleEvent(g, Head(evs)), Tail(evs))

EventLists == UNION {[1..n -> Events] : n \in 0..MaxEvents}

\* ---------------------------------------------------------------- loop top
\* Lines 708-816: the input snapshot, the event loop, the two "continue"s of the
\* menu and end screens and, in PLAYING, handle_input, the swirl flag, targeting
\* and firing.  space and mouse are keys[K_SPACE] and mouse_click[0]; in_range says
\* whether some sentinel is closer than 400; limit bounds the frames simulated.
LoopTop(evs, space, mouse, in_range, limit) ==
  /\ pc = "top"
  /\ running
  /\ GAME_STATE = "PLAYING" => \A i \in DOMAIN evs : evs[i].kind = "QUIT"
  /\ LET activate_swirl == space /\ ~IsNone(nanobot) /\ nanobot.ammo_count > 0
         g == HandleEvents([running |-> running, GAME_STATE |-> GAME_STATE,
                            current_level |-> current_level,
                            selected_level |-> selected_level, w |-> World], evs)
     IN /\ running' = g.running
        /\ GAME_STATE' = g.GAME_STATE
        /\ current_level' = g.current_level
        /\ selected_level' = g.selected_level
        /\ IF g.GAME_STATE # "PLAYING"
             THEN /\ Install(g.w)
                  /\ pc' = "top"
                  /\ frames' = frames
                  /\ UNCHANGED << mouse_click, target_enemy >>
             ELSE LET nb == [g.w.nanobot EXCEPT !.is_swirling = activate_swirl]
                      has_target == in_range /\ g.w.sentinels > 0
                      can_fire == mouse /\ ~nb.is_swirling
                      fired == FiredBullets(nb, has_target, can_fire, frames)
                  IN /\ frames + 1 <= limit
                     /\ Len(g.w.bullets) + Len(fired) <= MaxBullets
                     /\ Install([g.w EXCEPT
                                   !.nanobot = FireWeapon(nb, has_target, can_fire),
                                   !.bullets = g.w.bullets \o fired,
                                   !.since = IF CanFire(nb, has_target, can_fire)
                                               THEN [@ EXCEPT !.shot = 0] ELSE @])
                     /\ pc' = "update"
                     /\ frames' = frames + 1
                     /\ mouse_click' = mouse
                     /\ target_enemy' = has_target
  /\ UNCHANGED << hit_sentinels, gen, loot_rolls, mv, vis >>

\* ------------------------------------------------------------ sprite updates
\* The sequence s without the elements at the indices in S.
RemoveAt(s, S) ==
  LET F[i \in 0..Len(s)] ==
        IF i = 0 THEN << >>
        ELSE IF i \in S THEN F[i - 1] ELSE Append(F[i - 1], s[i])
  IN F[Len(s)]

\* Bullet.update on a bullet that stays in the group.
BulletUpdate(b) == [b EXCEPT !.moved = Min(b.moved + 1, 2)]

\* Lines 819-821: nanobot.update, sentinels.update, bullets.update.  moved says
\* where the Nanobot's step leaves it with respect to the door; gone holds the
\* bullets that kill themselves: a homing bullet at distance 0 of its target, a
\* bullet whose target is dead once it is off the screen.
UpdateSprites(moved, gone) ==
  /\ pc = "update"
  /\ nanobot' = NanobotUpdate(nanobot)
  /\ at_door' = moved
  /\ bullets' = RemoveAt([i \in DOMAIN bullets |-> BulletUpdate(bullets[i])], gone)
  /\ since' = SinceUpdate(since)
  /\ mouse_click' = FALSE
  /\ target_enemy' = FALSE
  /\ pc' = "contact"
  /\ UNCHANGED << running, GAME_STATE, current_level, selected_level, current_cores,
                  sentinels, hit_sentinels, crates, cores, powerups, frames, gen,
                  loot_rolls, mv, vis >>

\* --------------------------------------------------------- sentinel targets
\* The shots whose bullets still home on a live sentinel.
HomingShots(bs) == {bs[i].shot : i \in {j \in DOMAIN bs : bs[j].homing}}

\* Sentinel.kill clears alive_status: the bullets of the shots in lost had a
\* killed sentinel as their target.
LoseTargets(bs, lost) ==
  [i \in DOMAIN bs |-> IF bs[i].shot \in lost THEN [bs[i] EXCEPT !.homing = FALSE]
                                               ELSE bs[i]]

\* The sets of shots that may lose their target when killed sentinels die and
\* left stay alive.
LostChoices(bs, killed, left) ==
  IF killed = 0 THEN {{}}
  ELSE IF left = 0 THEN {HomingShots(bs)}
  ELSE SUBSET HomingShots(bs)

\* ------------------------------------------------------------- contact pass
\* The contact branches with the power-up shield tested before the swirl-shield.
ContactOneShieldFirst(c) ==
  IF c.nb.shield_active
    THEN [c EXCEPT !.nb.shield_timer = 0, !.nb.shield_active = FALSE,
                   !.killed = c.killed + 1]
  ELSE IF c.nb.is_swirling
    THEN [c EXCEPT !.killed = c.killed + 1]
  ELSE LET h == c.nb.current_health - 10
       IN [nb |-> [c.nb EXCEPT !.current_health = h],
           gs |-> IF h <= 0 THEN "GAME_OVER" ELSE c.gs,
           killed |-> c.killed + 1]

\* The contact branches with a power-up shield that a contact does not use up.
ContactOneShieldKept(c) ==
  IF c.nb.is_swirling \/ c.nb.shield_active
    THEN [c EXCEPT !.killed = c.killed + 1]
  ELSE LET h == c.nb.current_health - 10
       IN [nb |-> [c.nb EXCEPT !.current_health = h],
           gs |-> IF h <= 0 THEN "GAME_OVER" ELSE c.gs,
           killed |-> c.killed + 1]

\* The contact branches with a shield consumption that leaves the timer running.
ContactOneTimerKept(c) ==
  IF c.nb.is_swirling
    THEN [c EXCEPT !.killed = c.killed + 1]
  ELSE IF c.nb.shield_active
    THEN [c EXCEPT !.nb.shield_active = FALSE, !.killed = c.killed + 1]
  ELSE LET h == c.nb.current_health - 10
       IN [nb |-> [c.nb EXCEPT !.current_health = h],
           gs |-> IF h <= 0 THEN "GAME_OVER" ELSE c.gs,
           killed |-> c.killed + 1]

\* One pass of the body of "for sentinel in hit_sentinels" on c = [nb, gs, killed]:
\* the Nanobot, GAME_STATE and the number of sentinel.kill() calls so far.
ContactOne(c) ==
  IF c.nb.is_swirling
    THEN [c EXCEPT !.killed = c.killed + 1]
  ELSE IF c.nb.shield_active
    THEN [c EXCEPT !.nb.shield_timer = 0, !.nb.shield_active = FALSE,
                   !.killed = c.killed + 1]
  ELSE LET h == c.nb.current_health - 10
       IN [nb |-> [c.nb EXCEPT !.current_health = h],
           gs |-> IF h <= 0 THEN "GAME_OVER" ELSE c.gs,
           killed |-> c.killed + 1]

RECURSIVE ContactLoop(_, _)
ContactLoop(c, k) == IF k = 0 THEN c ELSE ContactLoop(ContactOne(c), k - 1)

\* Lines 829-846; k sentinels overlap the Nanobot.
ContactStep(k, lost) ==
  /\ pc = "contact"
  /\ k \in 0..sentinels
  /\ LET c == ContactLoop([nb |-> nanobot, gs |-> GAME_STATE, killed |-> 0], k)
     IN /\ lost \in LostChoices(bullets, c.killed, sentinels - c.killed)
        /\ nanobot' = c.nb
        /\ GAME_STATE' = c.gs
        /\ sentinels' = sentinels - c.killed
        /\ since' = IF c.nb.shield_timer < nanobot.shield_timer
                       THEN [since EXCEPT !.shield = ShieldFrames] ELSE since
  /\ hit_sentinels' = k
  /\ bullets' = LoseTargets(bullets, lost)
  /\ pc' = "bullets"
  /\ UNCHANGED << running, current_level, selected_level, current_cores, crates,
                  cores, powerups, at_door, frames, gen, loot_rolls, mv,
                  mouse_click, target_enemy, vis >>

\* -------------------------------------------------------------- bullet pass
\* random.random() of Crate.hit, in hundredths: the values around the thresholds.
LootRolls == {0, 19, 20, 44, 45, 64, 65, 99}

\* The draws of one Crate.hit that destroys the crate: loot_roll and, where a
\* PowerUp is built (loot_roll < 0.2), the random.choice of PowerUp.__init__.
LootDraws ==
  {d \in [roll : LootRolls, kind : {"shield", "multishot"}] :
     d.roll >= 20 => d.kind = "shield"}

\* A loot table whose bands include their upper ends.
LootInclusive(d) ==
  IF d.roll <= 20 THEN d.kind
  ELSE IF d.roll <= 45 THEN "ammo"
  ELSE IF d.roll <= 65 THEN "health"
  ELSE "none"

\* The loot table of Crate.hit.
Loot(d) ==
  IF d.roll < 20 THEN d.kind
  ELSE IF d.roll < 45 THEN "ammo"
  ELSE IF d.roll < 65 THEN "health"
  ELSE "none"

\* Crate.hit with the draws d: the crate after the hit and what hit returns.
CrateHit(crate, d) ==
  LET h == crate.health - 1
  IN IF h <= 0
       THEN [crate |-> [health |-> h, in_group |-> FALSE], drop |-> Loot(d)]
       ELSE [crate |-> [health |-> h, in_group |-> TRUE], drop |-> "none"]

\* What one bullet meets in the pass: s sentinels and the crate c (0: none; a
\* bullet is too small to overlap two crates).
BulletInputs == [s : 0..MaxBulletHits, c : 0..MaxCrates]

\* One pass of the body of "for bullet in bullets" for bullet i with input x, on
\* r = [sentinels, crates, powerups, killed, n_killed, rolls, ok]; loot[c] holds
\* the draws of the hit that destroys crate c, rolls the values of loot_roll
\* drawn so far; ok is whether the inputs so far fit the groups.
BulletOne(r, i, x, loot) ==
  LET hit_crate == x.c # 0
      fits == /\ x.s <= r.sentinels
              /\ hit_crate => (x.c \in DOMAIN r.crates /\ r.crates[x.c].in_group)
      res == CrateHit(r.crates[x.c], loot[x.c])
  IN IF ~(r.ok /\ fits) THEN [r EXCEPT !.ok = FALSE]
     ELSE [sentinels |-> r.sentinels - x.s,
           crates |-> IF hit_crate THEN [r.crates EXCEPT ![x.c] = res.crate] ELSE r.crates,
           powerups |-> IF hit_crate /\ res.drop # "none"
                          THEN Append(r.powerups, res.drop) ELSE r.powerups,
           killed |-> IF x.s > 0 \/ hit_crate THEN r.killed \cup {i} ELSE r.killed,
           n_killed |-> r.n_killed + x.s,
           rolls |-> IF hit_crate /\ ~res.crate.in_group
                       THEN Append(r.rolls, loot[x.c].roll) ELSE r.rolls,
           ok |-> TRUE]

RECURSIVE BulletLoop(_, _, _, _)
BulletLoop(r, i, xs, loot) ==
  IF i > Len(xs) THEN r ELSE BulletLoop(BulletOne(r, i, xs[i], loot), i + 1, xs, loot)

\* Lines 849-864; xs[i] is what the i-th bullet of the group meets.  The pass
\* rebinds hit_sentinels for every bullet: the contact pass's list is gone.
BulletStep(xs, loot, lost) ==
  /\ pc = "bullets"
  /\ Len(xs) = Len(bullets)
  /\ LET r == BulletLoop([sentinels |-> sentinels, crates |-> crates,
                          powerups |-> powerups, killed |-> {}, n_killed |-> 0,
                          rolls |-> << >>, ok |-> TRUE], 1, xs, loot)
         left == RemoveAt(bullets, r.killed)
     IN /\ r.ok
        /\ \A c \in DOMAIN crates :  \* a crate that is not destroyed draws nothing
              (r.crates[c].in_group \/ ~crates[c].in_group)
                 => loot[c] = [roll |-> 0, kind |-> "shield"]
        /\ Len(r.powerups) <= MaxPowerUps
        /\ lost \in LostChoices(left, r.n_killed, r.sentinels)
        /\ sentinels' = r.sentinels
        /\ crates' = r.crates
        /\ powerups' = r.powerups
        /\ bullets' = LoseTargets(left, lost)
        /\ loot_rolls' = r.rolls
  /\ hit_sentinels' = 0
  /\ pc' = "cores"
  /\ UNCHANGED << running, GAME_STATE, current_level, selected_level, nanobot,
                  current_cores, cores, at_door, frames, gen, mv,
                  mouse_click, target_enemy, since, vis >>

\* ---------------------------------------------------------------- core pass
\* Cores lie on the centres of distinct tiles: the Nanobot's rectangle is too
\* small to overlap two of them.
MaxCoresTouched == IF NANOBOT_SIZE + CORE_SIZE > TILE_SIZE THEN CORES_NEEDED ELSE 1

\* A core pass whose spritecollide leaves the cores it finds in the group.
CoreStepNoKill(n) ==
  /\ pc = "cores"
  /\ n \in 0..Min(cores, MaxCoresTouched)
  /\ cores' = cores
  /\ current_cores' = current_cores + n
  /\ loot_rolls' = << >>
  /\ pc' = "powerups"
  /\ UNCHANGED << running, GAME_STATE, current_level, selected_level, nanobot,
                  sentinels, hit_sentinels, crates, bullets, powerups, at_door,
                  frames, gen, mv, mouse_click, target_enemy, since, vis >>

\* Lines 867-870; n cores overlap the Nanobot.  The bullet pass is over and the
\* values its Crate.hit calls drew are gone.
CoreStep(n) ==
  /\ pc = "cores"
  /\ n \in 0..Min(cores, MaxCoresTouched)
  /\ cores' = cores - n
  /\ current_cores' = current_cores + n
  /\ loot_rolls' = << >>
  /\ pc' = "powerups"
  /\ UNCHANGED << running, GAME_STATE, current_level, selected_level, nanobot,
                  sentinels, hit_sentinels, crates, bullets, powerups, at_door,
                  frames, gen, mv,
                  mouse_click, target_enemy, since, vis >>

\* -------------------------------------------------------------- pickup pass
\* A bullet spawned at the Nanobot's centre and moved once is at most
\* BULLET_SPEED from there on each axis, and the Nanobot at most MOVE_SPEED: the
\* two rectangles still overlap.
StillOnNanobot(b) ==
  /\ b.moved = 1
  /\ ~b.jitter
  /\ 2 * (BULLET_SPEED + MOVE_SPEED) < NANOBOT_SIZE + BULLET_SIZE

RECURSIVE ApplyAll(_, _)
ApplyAll(nb, kinds) ==
  IF kinds = << >> THEN nb ELSE ApplyAll(ApplyPowerup(nb, Head(kinds)), Tail(kinds))

\* The sequence of the elements of s at the indices in S, in order.
KeepAt(s, S) == RemoveAt(s, DOMAIN s \ S)

\* Lines 873-876: spritecollide(nanobot, all_sprites, True) kills every sprite of
\* all_sprites that overlaps the Nanobot, whatever its class, and the pickups
\* among them are applied.  oc, ob and op are the crates, bullets and pickups
\* that overlap the Nanobot.
PowerUpStep(oc, ob, op) ==
  /\ pc = "powerups"
  /\ oc \subseteq {c \in DOMAIN crates : crates[c].in_group}
  /\ ob \subseteq DOMAIN bullets
  /\ \A i \in DOMAIN bullets : StillOnNanobot(bullets[i]) => i \in ob
  /\ op \subseteq DOMAIN powerups
  /\ crates' = [c \in DOMAIN crates |->
                  IF c \in oc THEN [crates[c] EXCEPT !.in_group = FALSE] ELSE crates[c]]
  /\ bullets' = RemoveAt(bullets, ob)
  /\ powerups' = RemoveAt(powerups, op)
  /\ nanobot' = ApplyAll(nanobot, KeepAt(powerups, op))
  /\ since' = [since EXCEPT
                 !.shield = IF \E i \in op : powerups[i] = "shield" THEN 0 ELSE @,
                 !.multishot = IF \E i \in op : powerups[i] = "multishot" THEN 0 ELSE @]
  /\ pc' = "door"
  /\ UNCHANGED << running, GAME_STATE, current_level, selected_level, current_cores,
                  sentinels, hit_sentinels, cores, at_door, frames, gen, loot_rolls, mv,
                  mouse_click, target_enemy, vis >>

\* --------------------------------------------------------------- door check
\* The door check without its core requirement.
DoorStepAnyCores ==
  /\ pc = "door"
  /\ IF at_door
       THEN IF current_level < TOTAL_LEVELS
              THEN /\ current_level' = current_level + 1
                   /\ Install(SetupLevel(World, current_level + 1))
                   /\ GAME_STATE' = GAME_STATE
              ELSE /\ GAME_STATE' = "GAME_WIN"
                   /\ UNCHANGED << current_level, nanobot, sentinels, crates, cores,
                                   bullets, powerups, current_cores, at_door, since >>
       ELSE UNCHANGED << GAME_STATE, current_level, nanobot, sentinels, crates, cores,
                         bullets, powerups, current_cores, at_door, since >>
  /\ pc' = "top"
  /\ UNCHANGED << running, selected_level, hit_sentinels, frames, gen, loot_rolls, mv,
                  mouse_click, target_enemy, vis >>

\* Lines 879-886.
DoorStep ==
  /\ pc = "door"
  /\ IF current_cores >= CORES_NEEDED /\ at_door
       THEN IF current_level < TOTAL_LEVELS
              THEN /\ current_level' = current_level + 1
                   /\ Install(SetupLevel(World, current_level + 1))
                   /\ GAME_STATE' = GAME_STATE
              ELSE /\ GAME_STATE' = "GAME_WIN"
                   /\ UNCHANGED << current_level, nanobot, sentinels, crates, cores,
                                   bullets, powerups, current_cores, at_door, since >>
       ELSE UNCHANGED << GAME_STATE, current_level, nanobot, sentinels, crates, cores,
                         bullets, powerups, current_cores, at_door, since >>
  /\ pc' = "top"
  /\ UNCHANGED << running, selected_level, hit_sentinels, frames, gen, loot_rolls, mv,
                  mouse_click, target_enemy, vis >>

\* ------------------------------------------------------------ specification
\* The events of a run from construction: the level is chosen with RETURN or with
\* a click on one of the last two buttons.
PlayEvents ==
  {e \in Events :
     /\ e.kind \in {"QUIT", "RETURN", "SPACE", "CLICK"}
     /\ (e.kind = "CLICK" => e.level \in {TOTAL_LEVELS - 1, TOTAL_LEVELS})}

PlayEventLists == UNION {[1..n -> PlayEvents] : n \in 0..MaxEvents}

\* The numbers of sentinels that touch the Nanobot in one frame: none, one, two
\* or all s of them.
TouchCounts(s) == {0, 1, 2, s} \cap (0..s)

Next ==
  \/ \E evs \in PlayEventLists, space \in BOOLEAN, mouse \in BOOLEAN, in_range \in BOOLEAN :
        LoopTop(evs, space, mouse, in_range, MaxFrames)
  \/ \E moved \in BOOLEAN, gone \in SUBSET DOMAIN bullets : UpdateSprites(moved, gone)
  \/ \E k \in TouchCounts(sentinels), lost \in SUBSET HomingShots(bullets) :
        ContactStep(k, lost)
  \/ \E xs \in [DOMAIN bullets -> BulletInputs], loot \in [DOMAIN crates -> LootDraws],
        lost \in SUBSET HomingShots(bullets) : BulletStep(xs, loot, lost)
  \/ \E n \in 0..CORES_NEEDED : CoreStep(n)
  \/ \E oc \in SUBSET DOMAIN crates, ob \in SUBSET DOMAIN bullets,
        op \in SUBSET DOMAIN powerups : PowerUpStep(oc, ob, op)
  \/ DoorStep

Spec == Init /\ [][Next]_vars

\* A frame start in the middle of level 1: the player has broken the first crate
\* with CRATE_HEALTH shots, the crate has dropped a pickup, which lies on the
\* floor, and the cooldown of the last shot has run out.
InitPlay ==
  /\ running = TRUE
  /\ GAME_STATE = "PLAYING"
  /\ current_level = 1
  /\ selected_level = 1
  /\ nanobot = [NewNanobot EXCEPT !.ammo_count = (100 - CRATE_HEALTH) * AmmoUnit]
  /\ current_cores = 0
  /\ sentinels = NumSentinels(1)
  /\ hit_sentinels = 0
  /\ crates = [c \in 1..NumCrates(1) |->
                 IF c = 1 THEN [health |-> 0, in_group |-> FALSE] ELSE NewCrate]
  /\ cores = CORES_NEEDED
  /\ bullets = << >>
  /\ \E kind \in PowerUpTypes : powerups = << kind >>
  /\ at_door = FALSE
  /\ pc = "top"
  /\ frames = 0
  /\ gen = NoGen
  /\ loot_rolls = << >>
  /\ mv = NoMove
  /\ mouse_click = FALSE
  /\ target_enemy = FALSE
  /\ vis = NoVis
  /\ since = SinceNever

NextPlay ==
  \/ \E space \in BOOLEAN, mouse \in BOOLEAN, in_range \in BOOLEAN :
        LoopTop(<< >>, space, mouse, in_range, MaxFrames)
  \/ \E moved \in BOOLEAN, gone \in SUBSET DOMAIN bullets : UpdateSprites(moved, gone)
  \/ \E k \in 0..sentinels, lost \in SUBSET HomingShots(bullets) : ContactStep(k, lost)
  \/ \E xs \in [DOMAIN bullets -> BulletInputs], loot \in [DOMAIN crates -> LootDraws],
        lost \in SUBSET HomingShots(bullets) : BulletStep(xs, loot, lost)
  \/ \E n \in 0..CORES_NEEDED : CoreStep(n)
  \/ \E oc \in SUBSET DOMAIN crates, ob \in SUBSET DOMAIN bullets,
        op \in SUBSET DOMAIN powerups : PowerUpStep(oc, ob, op)
  \/ DoorStep

SpecPlay == InitPlay /\ [][NextPlay]_vars

\* A frame start in the middle of level 1: the first crate, next to the player,
\* has taken none, one or two of the CRATE_HEALTH shots that break it, no pickup
\* lies on the floor and the cooldown of the last shot has run out.  No sentinel
\* touches the player and no core is collected.
InitCrate ==
  /\ running = TRUE
  /\ GAME_STATE = "PLAYING"
  /\ current_level = 1
  /\ selected_level = 1
  /\ \E h \in 1..CRATE_HEALTH :
        /\ nanobot = [NewNanobot EXCEPT !.ammo_count = (100 - (CRATE_HEALTH - h)) * AmmoUnit]
        /\ crates = [c \in 1..NumCrates(1) |->
                       IF c = 1 THEN [health |-> h, in_group |-> TRUE] ELSE NewCrate]
  /\ current_cores = 0
  /\ sentinels = NumSentinels(1)
  /\ hit_sentinels = 0
  /\ cores = CORES_NEEDED
  /\ bullets = << >>
  /\ powerups = << >>
  /\ at_door = FALSE
  /\ pc = "top"
  /\ frames = 0
  /\ gen = NoGen
  /\ loot_rolls = << >>
  /\ mv = NoMove
  /\ mouse_click = FALSE
  /\ target_enemy = FALSE
  /\ vis = NoVis
  /\ since = SinceNever

NextCrate ==
  \/ \E mouse \in BOOLEAN, in_range \in BOOLEAN :
        LoopTop(<< >>, FALSE, mouse, in_range, MaxCrateFrames)
  \/ \E gone \in SUBSET DOMAIN bullets : UpdateSprites(FALSE, gone)
  \/ ContactStep(0, {})
  \/ \E xs \in [DOMAIN bullets -> BulletInputs], loot \in [DOMAIN crates -> LootDraws],
        lost \in SUBSET HomingShots(bullets) : BulletStep(xs, loot, lost)
  \/ CoreStep(0)
  \/ \E oc \in SUBSET DOMAIN crates, ob \in SUBSET DOMAIN bullets,
        op \in SUBSET DOMAIN powerups : PowerUpStep(oc, ob, op)
  \/ DoorStep

SpecCrate == InitCrate /\ [][NextCrate]_vars

\* The pickup pass of a frame in the middle of level 1, for a pickup of any kind
\* on the floor and a player whose health and ammo are below, at and above the
\* values from which a gain reaches its cap.
PickupHealths == {5, 50, 75, 90, 100}
PickupAmmos == {0, 97, 948, 970}
PickupTimers == {0, 100}

InitPickup ==
  /\ running = TRUE
  /\ GAME_STATE = "PLAYING"
  /\ current_level = 1
  /\ selected_level = 1
  /\ \E h \in PickupHealths, a \in PickupAmmos, st \in PickupTimers :
        /\ nanobot = [NewNanobot EXCEPT !.current_health = h,
                                        !.ammo_count = a * AmmoUnit,
                                        !.shield_timer = st,
                                        !.shield_active = st > 0]
        /\ since = [SinceNever EXCEPT !.shield = ShieldFrames - st]
  /\ current_cores = 0
  /\ sentinels = NumSentinels(1)
  /\ hit_sentinels = 0
  /\ crates = [c \in 1..NumCrates(1) |->
                 IF c = 1 THEN [health |-> 0, in_group |-> FALSE] ELSE NewCrate]
  /\ cores = CORES_NEEDED
  /\ bullets = << >>
  /\ \E kind \in PowerUpTypes : powerups = << kind >>
  /\ at_door = FALSE
  /\ pc = "powerups"
  /\ frames = 1
  /\ gen = NoGen
  /\ loot_rolls = << >>
  /\ mv = NoMove
  /\ mouse_click = FALSE
  /\ target_enemy = FALSE
  /\ vis = NoVis

NextPickup ==
  \E oc \in SUBSET DOMAIN crates, ob \in SUBSET DOMAIN bullets,
     op \in SUBSET DOMAIN powerups : PowerUpStep(oc, ob, op)

SpecPickup == InitPickup /\ [][NextPickup]_vars

\* ----------------------------------------------------------- generate_level
\* The tiles <<x, y>> of the grid.
Tiles == (0..(GRID_WIDTH - 1)) \X (0..(GRID_HEIGHT - 1))

\* Lines 127-131: the border of the grid is wall.
Border ==
  {t \in Tiles : t[1] = 0 \/ t[1] = GRID_WIDTH - 1 \/ t[2] = 0 \/ t[2] = GRID_HEIGHT - 1}

\* Lines 133-136: all_floor_tiles, every tile inside the border.
AllFloorTiles == Tiles \ Border

\* The place of a tile in all_floor_tiles, which is built row by row.
RowMajor(t) == t[2] * GRID_WIDTH + t[1]

\* The square of math.hypot(p - q), which orders the tiles as hypot does.
Dist2(p, q) == (p[1] - q[1]) * (p[1] - q[1]) + (p[2] - q[2]) * (p[2] - q[2])

\* Lines 146-147: far_tiles[0]; sorted(..., reverse=True) is stable, so among
\* the farthest tiles the first of all_floor_tiles wins.
DoorTile(start_pos) ==
  LET rest == AllFloorTiles \ {start_pos}
  IN CHOOSE d \in rest :
       \A e \in rest :
          \/ Dist2(e, start_pos) < Dist2(d, start_pos)
          \/ Dist2(e, start_pos) = Dist2(d, start_pos) /\ RowMajor(d) <= RowMajor(e)

NumWalls(level_num) == 15 + level_num * 2

\* The cells of a wall pass that spares neither the start tile nor the door tile.
WallCellsNoSpare(wx, wy, horizontal, len, start_pos, door_tile) ==
  IF horizontal
    THEN {<< x, wy >> : x \in {x \in wx..(wx + len - 1) : 0 < x /\ x < GRID_WIDTH - 1}}
    ELSE {<< wx, y >> : y \in {y \in wy..(wy + len - 1) : 0 < y /\ y < GRID_HEIGHT - 1}}

\* Lines 155-163: the cells one pass of the wall loop sets to 1, for the anchor
\* <<wx, wy>>, the direction and the length drawn.
WallCells(wx, wy, horizontal, len, start_pos, door_tile) ==
  IF << wx, wy >> = start_pos \/ << wx, wy >> = door_tile THEN {}
  ELSE IF horizontal
    THEN {<< x, wy >> : x \in {x \in wx..(wx + len - 1) :
                                  /\ 0 < x /\ x < GRID_WIDTH - 1
                                  /\ << x, wy >> # start_pos
                                  /\ << x, wy >> # door_tile}}
    ELSE {<< wx, y >> : y \in {y \in wy..(wy + len - 1) :
                                  /\ 0 < y /\ y < GRID_HEIGHT - 1
                                  /\ << wx, y >> # start_pos
                                  /\ << wx, y >> # door_tile}}

\* Lines 127-151: the grid with its border, the start tile and the door tile.
GenerateStart(level_num, start_tile) ==
  /\ gen.pc = "idle"
  /\ gen' = [pc |-> "walls", level_num |-> level_num, start_pos |-> start_tile,
             door_tile |-> DoorTile(start_tile), grid |-> Border, placed |-> 0,
             spawn_tiles |-> << >>, enemies_pos |-> << >>, crates_pos |-> << >>,
             cores_pos |-> << >>]
  /\ UNCHANGED << running, GAME_STATE, current_level, selected_level, nanobot,
                  current_cores, sentinels, hit_sentinels, crates, cores, bullets,
                  powerups, at_door, pc, frames, loot_rolls, mv,
                  mouse_click, target_enemy, since, vis >>

\* Lines 154-163: one pass of "for _ in range(num_walls)".
GenerateWall(wx, wy, horizontal, len) ==
  /\ gen.pc = "walls"
  /\ gen.placed < NumWalls(gen.level_num)
  /\ gen' = [gen EXCEPT
               !.grid = @ \cup WallCells(wx, wy, horizontal, len, gen.start_pos,
                                         gen.door_tile),
               !.placed = @ + 1]
  /\ UNCHANGED << running, GAME_STATE, current_level, selected_level, nanobot,
                  current_cores, sentinels, hit_sentinels, crates, cores, bullets,
                  powerups, at_door, pc, frames, loot_rolls, mv,
                  mouse_click, target_enemy, since, vis >>

\* The centre of a tile, in pixels: where the sprites of a level are put.
TileCentre(t) == << t[1] * TILE_SIZE + TILE_SIZE \div 2, t[2] * TILE_SIZE + TILE_SIZE \div 2 >>

\* Lines 133-136: all_floor_tiles as the list the loops build, row by row.
AllFloorList ==
  [i \in 1..((GRID_WIDTH - 2) * (GRID_HEIGHT - 2)) |->
     << 1 + ((i - 1) % (GRID_WIDTH - 2)), 1 + ((i - 1) \div (GRID_WIDTH - 2)) >>]

\* Line 165: spawn_tiles, the tiles of all_floor_tiles (which has lost the start
\* and the door tile) that are floor, in the order of all_floor_tiles.
SpawnTiles(grid, start_pos, door_tile) ==
  LET free(t) == t # start_pos /\ t # door_tile /\ t \notin grid
  IN SelectSeq(AllFloorList, free)

\* random.choice(spawn_tiles) as the index drawn: the first or the last.
SpawnRules == {"first", "last"}
SpawnIndex(spawn_tiles, rule) == IF rule = "first" THEN 1 ELSE Len(spawn_tiles)

\* A spawn loop that leaves the tile it draws in spawn_tiles.
RECURSIVE SpawnLoopNoRemove(_, _, _)
SpawnLoopNoRemove(n, spawn_tiles, rule) ==
  IF n = 0 THEN [pos |-> << >>, spawn_tiles |-> spawn_tiles]
  ELSE IF spawn_tiles = << >> THEN SpawnLoopNoRemove(n - 1, spawn_tiles, rule)
  ELSE LET i == SpawnIndex(spawn_tiles, rule)
           rest == SpawnLoopNoRemove(n - 1, spawn_tiles, rule)
       IN [rest EXCEPT !.pos = << TileCentre(spawn_tiles[i]) >> \o @]

\* Lines 171-175, 177-181 and 183-187: one spawn loop of n passes; what it
\* appends to its list and what it leaves of spawn_tiles.
RECURSIVE SpawnLoop(_, _, _)
SpawnLoop(n, spawn_tiles, rule) ==
  IF n = 0 THEN [pos |-> << >>, spawn_tiles |-> spawn_tiles]
  ELSE IF spawn_tiles = << >> THEN SpawnLoop(n - 1, spawn_tiles, rule)
  ELSE LET i == SpawnIndex(spawn_tiles, rule)
           left == SubSeq(spawn_tiles, 1, i - 1)
                     \o SubSeq(spawn_tiles, i + 1, Len(spawn_tiles))
           rest == SpawnLoop(n - 1, left, rule)
       IN [rest EXCEPT !.pos = << TileCentre(spawn_tiles[i]) >> \o @]

\* The number of passes of the crate loop.
CratesDrawn(level_num) == 5 + level_num * 2

\* Lines 165-175: the wall loop is over; spawn_tiles is built and the sentinel
\* positions are drawn.
GenerateEnemies(rule) ==
  /\ gen.pc = "walls"
  /\ gen.placed = NumWalls(gen.level_num)
  /\ LET l == SpawnLoop(NumSentinels(gen.level_num),
                        SpawnTiles(gen.grid, gen.start_pos, gen.door_tile), rule)
     IN gen' = [gen EXCEPT !.pc = "crates", !.enemies_pos = l.pos,
                           !.spawn_tiles = l.spawn_tiles]
  /\ UNCHANGED << running, GAME_STATE, current_level, selected_level, nanobot,
                  current_cores, sentinels, hit_sentinels, crates, cores, bullets,
                  powerups, at_door, pc, frames, loot_rolls, mv,
                  mouse_click, target_enemy, since, vis >>

\* Lines 177-181: the crate positions.
GenerateCrates(rule) ==
  /\ gen.pc = "crates"
  /\ LET l == SpawnLoop(CratesDrawn(gen.level_num), gen.spawn_tiles, rule)
     IN gen' = [gen EXCEPT !.pc = "cores", !.crates_pos = l.pos,
                           !.spawn_tiles = l.spawn_tiles]
  /\ UNCHANGED << running, GAME_STATE, current_level, selected_level, nanobot,
                  current_cores, sentinels, hit_sentinels, crates, cores, bullets,
                  powerups, at_door, pc, frames, loot_rolls, mv,
                  mouse_click, target_enemy, since, vis >>

\* Lines 183-187: the core positions.
GenerateCores(rule) ==
  /\ gen.pc = "cores"
  /\ LET l == SpawnLoop(CORES_NEEDED, gen.spawn_tiles, rule)
     IN gen' = [gen EXCEPT !.pc = "return", !.cores_pos = l.pos,
                           !.spawn_tiles = l.spawn_tiles]
  /\ UNCHANGED << running, GAME_STATE, current_level, selected_level, nanobot,
                  current_cores, sentinels, hit_sentinels, crates, cores, bullets,
                  powerups, at_door, pc, frames, loot_rolls, mv,
                  mouse_click, target_enemy, since, vis >>

\* Line 189: the grid and the lists are returned as they are.
GenerateReturn ==
  /\ gen.pc = "return"
  /\ gen' = [gen EXCEPT !.pc = "done"]
  /\ UNCHANGED << running, GAME_STATE, current_level, selected_level, nanobot,
                  current_cores, sentinels, hit_sentinels, crates, cores, bullets,
                  powerups, at_door, pc, frames, loot_rolls, mv,
                  mouse_click, target_enemy, since, vis >>

\* The draws of the runs of generate_level that are explored: the levels, the
\* start tiles, and the wall anchors, both at an end of randint's range.
GenLevels == {1, TOTAL_LEVELS}
GenStarts == {<< 1, 1 >>, << 2, 2 >>, << 1, GRID_HEIGHT \div 2 >>}
GenAnchors == {<< 2, 2 >>, << GRID_WIDTH - 3, GRID_HEIGHT - 3 >>}

NextGen ==
  \/ \E level_num \in GenLevels, start_tile \in GenStarts :
        GenerateStart(level_num, start_tile)
  \/ \E a \in GenAnchors, horizontal \in BOOLEAN, len \in 2..4 :
        GenerateWall(a[1], a[2], horizontal, len)
  \/ \E rule \in SpawnRules : GenerateEnemies(rule)
  \/ \E rule \in SpawnRules : GenerateCrates(rule)
  \/ \E rule \in SpawnRules : GenerateCores(rule)
  \/ GenerateReturn

SpecGen == Init /\ [][NextGen]_vars

\* The tiles next to t on the four sides.
Neighbours(t) ==
  {<< t[1] - 1, t[2] >>, << t[1] + 1, t[2] >>, << t[1], t[2] - 1 >>, << t[1], t[2] + 1 >>}

\* The floor cells (grid value 0) that a 4-connected path of floor cells
\* links to a cell of seen; frontier holds the cells of seen not yet expanded.
RECURSIVE Flood(_, _, _)
Flood(grid, seen, frontier) ==
  LET new == {t \in UNION {Neighbours(f) : f \in frontier} :
                t \in Tiles /\ t \notin grid /\ t \notin seen}
  IN IF new = {} THEN seen ELSE Flood(grid, seen \cup new, new)

Reachable(grid, from, to) == to \in Flood(grid, {from}, {from})

\* ----------------------------------------------------------------- movement
\* The movement code of Nanobot.update and Sentinel.update, on the grid that
\* generate_level builds.  A rect is its top-left corner << x, y >>; game_map is
\* the set of the wall cells.

\* int(px // TILE_SIZE), int(py // TILE_SIZE) of a point.
PointTile(p) == << p[1] \div TILE_SIZE, p[2] \div TILE_SIZE >>

\* The test both check_collision methods make on the tile of a point.
IsWall(game_map, t) == t \in Tiles /\ t \in game_map

\* rect.midtop, rect.midbottom, rect.midleft and rect.midright of the Nanobot.
NanobotPoints(r) ==
  {<< r[1] + NANOBOT_SIZE \div 2, r[2] >>,
   << r[1] + NANOBOT_SIZE \div 2, r[2] + NANOBOT_SIZE >>,
   << r[1], r[2] + NANOBOT_SIZE \div 2 >>,
   << r[1] + NANOBOT_SIZE, r[2] + NANOBOT_SIZE \div 2 >>}

\* Nanobot.check_collision.
NanobotCheckCollision(r, game_map) ==
  \E p \in NanobotPoints(r) : IsWall(game_map, PointTile(p))

\* A step that gives up both displacements when either is blocked.
NanobotMoveStops(r, v, game_map) ==
  LET new_x == r[1] + v[1]
      new_y == r[2] + v[2]
  IN IF \/ NanobotCheckCollision(<< new_x, r[2] >>, game_map)
        \/ NanobotCheckCollision(<< new_x, new_y >>, game_map)
       THEN r ELSE << new_x, new_y >>

\* A step that tests the two displacements together and does not take x back.
NanobotMoveNoRevert(r, v, game_map) ==
  LET new_x == r[1] + v[1]
      new_y == r[2] + v[2]
  IN IF NanobotCheckCollision(<< new_x, new_y >>, game_map)
       THEN << new_x, r[2] >> ELSE << new_x, new_y >>

\* Lines 365-369: the movement of Nanobot.update with the velocity v.
NanobotMove(r, v, game_map) ==
  LET new_x == r[1] + v[1]
      new_y == r[2] + v[2]
      x == IF NanobotCheckCollision(<< new_x, r[2] >>, game_map)
             THEN new_x - v[1] ELSE new_x
      y == IF NanobotCheckCollision(<< x, new_y >>, game_map)
             THEN new_y - v[2] ELSE new_y
  IN << x, y >>

\* The velocities handle_input sets from the keys A, D, W and S.
KeyVelocities == {-MOVE_SPEED, 0, MOVE_SPEED} \X {-MOVE_SPEED, 0, MOVE_SPEED}

\* rect.center of a rect of the given size, and the rect with a given centre.
Centre(r, size) == << r[1] + size \div 2, r[2] + size \div 2 >>
RectAt(c, size) == << c[1] - size \div 2, c[2] - size \div 2 >>

\* Sentinel.check_collision: the tile under the centre of the rect.
SentinelCheckCollision(r, game_map) ==
  IsWall(game_map, PointTile(Centre(r, SENTINEL_SIZE)))

\* target_vx and target_vy are floats; the model keeps them in VelUnit-ths of a
\* pixel.
VelUnit == 4

\* "rect.x = new_x" with a float: the Rect keeps the integer part.
Truncate(x, v) == (x * VelUnit + v) \div VelUnit

\* "rect.x = new_x - target_vx": in double arithmetic (x + v) - v falls just
\* short of x when v > 0 and x is a power of two or one less, and the Rect then
\* keeps x - 1.
InexactAt == UNION {{n, n - 1} : n \in {1, 2, 4, 8, 16, 32, 64, 128, 256, 512, 1024}}
Reverted(x, v) == IF v > 0 /\ x \in InexactAt THEN {x - 1, x} ELSE {x}

\* SENTINEL_SPEED * cos(angle) for a target at the offset d on the axis: toward
\* the target, at most SENTINEL_SPEED; less than a pixel, more than a pixel, or
\* the full speed.  At the offset 0 the float is 0, or the small positive
\* value of cos(pi / 2) and sin(pi), or the full speed of atan2(0, 0) = 0.
SentinelVelocities(d) ==
  IF d > 0 THEN {1, VelUnit + 1, SENTINEL_SPEED * VelUnit}
  ELSE IF d < 0 THEN {-1, -(VelUnit + 1), -(SENTINEL_SPEED * VelUnit)}
  ELSE {0, 1, SENTINEL_SPEED * VelUnit}

\* A Sentinel.update that takes neither displacement back.
SentinelMoveThrough(r, v, back, game_map) ==
  << Truncate(r[1], v[1]), Truncate(r[2], v[2]) >>

\* Lines 258-263: the movement of Sentinel.update with the velocity v; back holds
\* what the two assignments that take a displacement back leave in the Rect.
SentinelMove(r, v, back, game_map) ==
  LET x == IF SentinelCheckCollision(<< Truncate(r[1], v[1]), r[2] >>, game_map)
             THEN back[1] ELSE Truncate(r[1], v[1])
      y == IF SentinelCheckCollision(<< x, Truncate(r[2], v[2]) >>, game_map)
             THEN back[2] ELSE Truncate(r[2], v[2])
  IN << x, y >>

\* Lines 255-256: the Sentinel moves if the Nanobot is nearer than 1.5 light radii.
InChaseRange(s, n) ==
  4 * Dist2(Centre(s, SENTINEL_SIZE), Centre(n, NANOBOT_SIZE))
     < 9 * LIGHT_RADIUS * LIGHT_RADIUS

\* setup_level has put the Nanobot on the start tile of game_map; the Sentinel
\* is at the rect sentinel.
MoveStart(game_map, start_tile, sentinel) ==
  /\ mv.pc = "idle"
  /\ mv' = [pc |-> "nanobot", game_map |-> game_map,
            nanobot |-> RectAt(TileCentre(start_tile), NANOBOT_SIZE),
            sentinel |-> sentinel,
            velocity |-> << 0, 0 >>, target_v |-> << 0, 0 >>, updates |-> 0]
  /\ UNCHANGED << running, GAME_STATE, current_level, selected_level, nanobot,
                  current_cores, sentinels, hit_sentinels, crates, cores, bullets,
                  powerups, at_door, pc, frames, gen, loot_rolls,
                  mouse_click, target_enemy, since, vis >>

\* Line 800 and lines 365-369: handle_input sets the velocity v from the keys
\* and nanobot.update moves the rect.
NanobotMoveStep(v) ==
  /\ mv.pc = "nanobot"
  /\ mv.updates < MaxMoves
  /\ mv' = [mv EXCEPT !.pc = "sentinel",
                      !.velocity = v,
                      !.nanobot = NanobotMove(mv.nanobot, v, mv.game_map)]
  /\ UNCHANGED << running, GAME_STATE, current_level, selected_level, nanobot,
                  current_cores, sentinels, hit_sentinels, crates, cores, bullets,
                  powerups, at_door, pc, frames, gen, loot_rolls,
                  mouse_click, target_enemy, since, vis >>

\* Lines 254-263: sentinels.update on the one Sentinel, after nanobot.update;
\* slip says which of the assignments that take a displacement back fall short.
SentinelMoveStep(v, slip) ==
  /\ mv.pc = "sentinel"
  /\ LET n == Centre(mv.nanobot, NANOBOT_SIZE)
         c == Centre(mv.sentinel, SENTINEL_SIZE)
         back == << mv.sentinel[1] - slip[1], mv.sentinel[2] - slip[2] >>
     IN IF InChaseRange(mv.sentinel, mv.nanobot)
          THEN /\ v[1] \in SentinelVelocities(n[1] - c[1])
               /\ v[2] \in SentinelVelocities(n[2] - c[2])
               /\ back[1] \in Reverted(mv.sentinel[1], v[1])
               /\ back[2] \in Reverted(mv.sentinel[2], v[2])
               /\ mv' = [mv EXCEPT !.pc = "nanobot",
                                   !.target_v = v,
                                   !.sentinel = SentinelMove(mv.sentinel, v, back,
                                                             mv.game_map),
                                   !.updates = @ + 1]
          ELSE /\ v = << 0, 0 >>
               /\ slip = << 0, 0 >>
               /\ mv' = [mv EXCEPT !.pc = "nanobot", !.target_v = v, !.updates = @ + 1]
  /\ UNCHANGED << running, GAME_STATE, current_level, selected_level, nanobot,
                  current_cores, sentinels, hit_sentinels, crates, cores, bullets,
                  powerups, at_door, pc, frames, gen, loot_rolls,
                  mouse_click, target_enemy, since, vis >>

\* The grids of SpecMove: the border and one wall segment next to the start
\* tile, as the wall loop of generate_level draws it.
MoveStarts == {<< 1, 1 >>, << 2, 2 >>}
MoveAnchors == {<< 2, 2 >>, << 3, 2 >>}
MoveMaps(start_tile) ==
  {Border \cup WallCells(a[1], a[2], horizontal, 2, start_tile, DoorTile(start_tile)) :
     a \in MoveAnchors, horizontal \in BOOLEAN}

\* The rects of a Sentinel that was spawned on the tile t and has moved to the
\* left or the upper edge of the tile or is still on its centre; the last spawn
\* tile is out of chase range of the start tiles.
SentinelSpawns == {<< 3, 3 >>, << 1, 2 >>, << GRID_WIDTH - 3, GRID_HEIGHT - 3 >>}
SentinelRects(t) ==
  {RectAt(<< TileCentre(t)[1] - ox, TileCentre(t)[2] - oy >>, SENTINEL_SIZE) :
     ox \in {0, TILE_SIZE \div 2}, oy \in {0, TILE_SIZE \div 2}}

\* The velocities of the Sentinel on one axis, whatever the direction.
AxisVelocities == UNION {SentinelVelocities(d) : d \in {-1, 0, 1}}

\* The runs of SpecMove: the player walks with the keys while the Sentinel is out
\* of chase range, or stands still while the Sentinel chases.
NextMove ==
  \/ \E start_tile \in MoveStarts :
       \E game_map \in MoveMaps(start_tile), t \in SentinelSpawns :
         /\ t \notin game_map
         /\ t # start_tile
         /\ \E sentinel \in SentinelRects(t) : MoveStart(game_map, start_tile, sentinel)
  \/ /\ mv.pc = "nanobot"
     /\ \E v \in KeyVelocities :
          /\ InChaseRange(mv.sentinel, mv.nanobot) => v = << 0, 0 >>
          /\ NanobotMoveStep(v)
  \/ \E v \in AxisVelocities \X AxisVelocities, slip \in {0, 1} \X {0, 1} :
        SentinelMoveStep(v, slip)

SpecMove == Init /\ [][NextMove]_vars

\* A frame start in the middle of level 1 with no bullet in flight and no pickup
\* on the floor: the ammo is used up, is the fraction a swirl has left, is one or
\* two units or is 100; the cooldown has run out, runs out in this frame or has
\* just begun; the multi-shot buff is off or has 100 frames left.
FireAmmos == {0, 1, AmmoUnit, 2 * AmmoUnit, 100 * AmmoUnit}
FireCooldowns == {0, 1, FIRE_COOLDOWN - 1}
FireTimers == {0, 100}

InitFire ==
  /\ running = TRUE
  /\ GAME_STATE = "PLAYING"
  /\ current_level = 1
  /\ selected_level = 1
  /\ \E a \in FireAmmos, cd \in FireCooldowns, mt \in FireTimers :
        /\ nanobot = [NewNanobot EXCEPT !.ammo_count = a,
                                        !.cooldown_timer = cd,
                                        !.multi_shot_timer = mt,
                                        !.multi_shot_active = mt > 0]
        /\ since = [SinceNever EXCEPT !.shot = FIRE_COOLDOWN - cd,
                                      !.multishot = MultiShotFrames - mt]
  /\ current_cores = 0
  /\ sentinels = NumSentinels(1)
  /\ hit_sentinels = 0
  /\ crates = [c \in 1..NumCrates(1) |-> NewCrate]
  /\ cores = CORES_NEEDED
  /\ bullets = << >>
  /\ powerups = << >>
  /\ at_door = FALSE
  /\ pc = "top"
  /\ frames = 0
  /\ gen = NoGen
  /\ loot_rolls = << >>
  /\ mv = NoMove
  /\ mouse_click = FALSE
  /\ target_enemy = FALSE
  /\ vis = NoVis

\* The frames of SpecFire: the keys, the mouse button and the sentinels' distance
\* are free; no sentinel touches the player and no bullet reaches anything.
NextFire ==
  \/ \E space \in BOOLEAN, mouse \in BOOLEAN, in_range \in BOOLEAN :
        LoopTop(<< >>, space, mouse, in_range, MaxFireFrames)
  \/ UpdateSprites(FALSE, {})
  \/ ContactStep(0, {})
  \/ BulletStep([i \in DOMAIN bullets |-> [s |-> 0, c |-> 0]],
                [c \in DOMAIN crates |-> [roll |-> 0, kind |-> "shield"]], {})
  \/ CoreStep(0)
  \/ \E ob \in SUBSET DOMAIN bullets : PowerUpStep({}, ob, {})
  \/ DoorStep

SpecFire == InitFire /\ [][NextFire]_vars

\* A run of level 1 from construction in which the player stands still and
\* never holds SPACE; the mouse button and the sentinels' distance are free, no
\* sentinel touches the player and no bullet reaches anything.
NextCool ==
  \/ \E evs \in {<< >>, << [kind |-> "RETURN", level |-> 0] >>},
        mouse \in BOOLEAN, in_range \in BOOLEAN :
        LoopTop(evs, FALSE, mouse, in_range, MaxCoolFrames)
  \/ UpdateSprites(FALSE, {})
  \/ ContactStep(0, {})
  \/ BulletStep([i \in DOMAIN bullets |-> [s |-> 0, c |-> 0]],
                [c \in DOMAIN crates |-> [roll |-> 0, kind |-> "shield"]], {})
  \/ CoreStep(0)
  \/ \E ob \in SUBSET DOMAIN bullets : PowerUpStep({}, ob, {})
  \/ DoorStep

SpecCool == Init /\ [][NextCool]_vars

\* The pickup pass of a frame in the middle of level 1: the first crate has
\* dropped a shield or a multi-shot pickup, which lies on the floor; the player
\* holds no buff or the same buff with 100 frames left, and has collected no
\* core or all of them.
BuffKinds == {"shield", "multishot"}
BuffTimers == {0, 100}

InitBuff ==
  /\ running = TRUE
  /\ GAME_STATE = "PLAYING"
  /\ current_level = 1
  /\ selected_level = 1
  /\ \E kind \in BuffKinds, t \in BuffTimers :
        LET st == IF kind = "shield" THEN t ELSE 0
            mt == IF kind = "multishot" THEN t ELSE 0
        IN /\ powerups = << kind >>
           /\ nanobot = [NewNanobot EXCEPT !.shield_timer = st,
                                           !.shield_active = st > 0,
                                           !.multi_shot_timer = mt,
                                           !.multi_shot_active = mt > 0]
           /\ since = [SinceNever EXCEPT !.shield = ShieldFrames - st,
                                         !.multishot = MultiShotFrames - mt]
  /\ \E n \in {0, CORES_NEEDED} :
        /\ current_cores = n
        /\ cores = CORES_NEEDED - n
  /\ sentinels = NumSentinels(1)
  /\ hit_sentinels = 0
  /\ crates = [c \in 1..NumCrates(1) |->
                 IF c = 1 THEN [health |-> 0, in_group |-> FALSE] ELSE NewCrate]
  /\ bullets = << >>
  /\ at_door = FALSE
  /\ pc = "powerups"
  /\ frames = 1
  /\ gen = NoGen
  /\ loot_rolls = << >>
  /\ mv = NoMove
  /\ mouse_click = FALSE
  /\ target_enemy = FALSE
  /\ vis = NoVis

\* The frames of SpecBuff: the player neither fires nor swirls; it reaches the
\* pickup and the door in the first frames or not at all, and the first of the
\* level's sentinels touches it in some frame or in none.
NextBuff ==
  \/ LoopTop(<< >>, FALSE, FALSE, FALSE, MaxBuffFrames)
  \/ \E moved \in {b \in BOOLEAN : b => frames <= MaxNearFrames} : UpdateSprites(moved, {})
  \/ \E k \in {n \in {0, 1} : n = 1 => sentinels = NumSentinels(current_level)} :
        ContactStep(k, {})
  \/ BulletStep(<< >>, [c \in DOMAIN crates |-> [roll |-> 0, kind |-> "shield"]], {})
  \/ CoreStep(0)
  \/ \E op \in {S \in SUBSET DOMAIN powerups : S # {} => frames <= MaxNearFrames} :
        PowerUpStep({}, {}, op)
  \/ DoorStep

SpecBuff == InitBuff /\ [][NextBuff]_vars

\* ------------------------------------------------- calculate_visible_tiles
\* math.hypot(p - q) < r * 1.5 for points and a radius that are integers: the
\* squares compare as the floats do.
Within(p, q, r) == 4 * Dist2(p, q) < 9 * r * r

\* A lighting that shows the walls as far as it shows the floor.
CalculateVisibleTilesFarWalls(nanobot_center, game_map) ==
  {t \in Tiles : Within(TileCentre(t), nanobot_center, LIGHT_RADIUS)}

\* Lines 520-530; game_map is the set of the cells whose value is 1.
CalculateVisibleTiles(nanobot_center, game_map) ==
  {t \in Tiles :
     /\ Within(TileCentre(t), nanobot_center, LIGHT_RADIUS)
     /\ \/ t \notin game_map
        \/ t \in game_map /\ Within(TileCentre(t), nanobot_center, TILE_SIZE)}

\* Line 916: the loop body calls calculate_visible_tiles(nanobot.rect.center,
\* game_map).
VisibleCall(nanobot_center, game_map) ==
  /\ vis.pc = "idle"
  /\ vis' = [pc |-> "call", nanobot_center |-> nanobot_center, game_map |-> game_map]
  /\ UNCHANGED << running, GAME_STATE, current_level, selected_level, nanobot,
                  current_cores, sentinels, hit_sentinels, crates, cores, bullets,
                  powerups, at_door, pc, frames, gen, loot_rolls, mv,
                  mouse_click, target_enemy, since >>

\* Line 530: the set is returned; the function has read game_map and has written
\* nothing to it.
VisibleReturn ==
  /\ vis.pc = "call"
  /\ vis' = [pc |-> "done", nanobot_center |-> vis.nanobot_center,
             game_map |-> vis.game_map,
             visible_tiles |-> CalculateVisibleTiles(vis.nanobot_center, vis.game_map)]
  /\ UNCHANGED << running, GAME_STATE, current_level, selected_level, nanobot,
                  current_cores, sentinels, hit_sentinels, crates, cores, bullets,
                  powerups, at_door, pc, frames, gen, loot_rolls, mv,
                  mouse_click, target_enemy, since >>

\* The centres of the player of SpecVis: on the centre of the start tile and a
\* few pixels off it, among them centres at exactly 1.5 * LIGHT_RADIUS of a tile
\* centre and at exactly 1.5 * TILE_SIZE of a wall's centre.
VisCentres == {75, 80, 95, 100, 125} \X {75, 85, 100, 125}
VisMaps == {Border} \cup UNION {MoveMaps(start_tile) : start_tile \in MoveStarts}

NextVis ==
  \/ \E nanobot_center \in VisCentres, game_map \in VisMaps :
        /\ ~NanobotCheckCollision(RectAt(nanobot_center, NANOBOT_SIZE), game_map)
        /\ VisibleCall(nanobot_center, game_map)
  \/ VisibleReturn

SpecVis == Init /\ [][NextVis]_vars

\* A long run of level 1 from construction in which the player stands still,
\* holds SPACE at most during the first frames and then keeps the mouse button
\* down with a sentinel in range that no bullet reaches.
NextAmmo ==
  \/ \E evs \in {<< >>, << [kind |-> "RETURN", level |-> 0] >>},
        space \in {b \in BOOLEAN : b => frames < MaxSwirlFrames} :
        LoopTop(evs, space, TRUE, TRUE, MaxAmmoFrames)
  \/ UpdateSprites(FALSE, {})
  \/ ContactStep(0, {})
  \/ BulletStep([i \in DOMAIN bullets |-> [s |-> 0, c |-> 0]],
                [c \in DOMAIN crates |-> [roll |-> 0, kind |-> "shield"]], {})
  \/ CoreStep(0)
  \/ \E ob \in SUBSET DOMAIN bullets : PowerUpStep({}, ob, {})
  \/ DoorStep

SpecAmmo == Init /\ [][NextAmmo]_vars

\* A long run of level 1 from construction in which the player stands still and
\* SPACE is held in every frame; the mouse button is up or down, with a sentinel
\* in range that no bullet reaches.
NextSwirl ==
  \/ \E evs \in {<< >>, << [kind |-> "RETURN", level |-> 0] >>}, mouse \in BOOLEAN :
        LoopTop(evs, TRUE, mouse, TRUE, MaxAmmoFrames)
  \/ UpdateSprites(FALSE, {})
  \/ ContactStep(0, {})
  \/ BulletStep([i \in DOMAIN bullets |-> [s |-> 0, c |-> 0]],
                [c \in DOMAIN crates |-> [roll |-> 0, kind |-> "shield"]], {})
  \/ CoreStep(0)
  \/ \E ob \in SUBSET DOMAIN bullets : PowerUpStep({}, ob, {})
  \/ DoorStep

SpecSwirl == Init /\ [][NextSwirl]_vars

\* --------------------------------------------------------------- properties
\* C1: in every reachable state the player's current_health is at least 0 and at
\* most max_health.
C1_HealthInRange ==
  ~IsNone(nanobot) =>
     /\ 0 <= nanobot.current_health
     /\ nanobot.current_health <= nanobot.max_health

\* C2: in every reachable state the player's ammo_count is at least 0 and at most
\* 999; in particular a shot fired from the fraction that a swirl drain has left
\* does not take it below 0.
C2_AmmoInRange ==
  ~IsNone(nanobot) =>
     /\ 0 <= nanobot.ammo_count
     /\ nanobot.ammo_count <= 999 * AmmoUnit

\* C3: a contact taken with neither the swirl-shield nor the power-up shield that
\* leaves the health at 0 or below sets GAME_OVER, and no later step of the same
\* frame (bullet pass, core pickup, pickup resolution, door check) changes that
\* state, so the frame ends in GAME_OVER.
C3_DeathEndsInGameOver ==
  [][/\ (/\ pc = "contact"
          /\ hit_sentinels' > 0
          /\ nanobot'.current_health < nanobot.current_health
          /\ nanobot'.current_health <= 0) => GAME_STATE' = "GAME_OVER"
     /\ (/\ pc \in {"bullets", "cores", "powerups", "door"}
          /\ GAME_STATE = "GAME_OVER") => GAME_STATE' = "GAME_OVER"]_vars

\* C4: the door check of a frame that finds current_cores >= CORES_NEEDED and the
\* player on the door leaves, below the last level, the state PLAYING, the level
\* one higher, a fresh level in place and current_cores at 0; on the last level
\* it leaves the state GAME_WIN and the level unchanged.
C4_DoorOutcome ==
  [][(pc = "door" /\ current_cores >= CORES_NEEDED /\ at_door) =>
       IF current_level < TOTAL_LEVELS
         THEN /\ GAME_STATE' = "PLAYING"
              /\ current_level' = current_level + 1
              /\ sentinels' = NumSentinels(current_level + 1)
              /\ cores' = CORES_NEEDED
              /\ \A c \in DOMAIN crates' : crates'[c] = NewCrate
              /\ bullets' = << >>
              /\ powerups' = << >>
              /\ current_cores' = 0
         ELSE /\ GAME_STATE' = "GAME_WIN"
              /\ current_level' = current_level]_vars

\* C5: while playing, current_level changes (by exactly one, upwards) and GAME_WIN
\* arises only in the door check of a frame in which current_cores >= CORES_NEEDED
\* and the player overlaps the door.
C5_DoorGatesProgress ==
  [][(/\ pc # "top" \/ GAME_STATE = "PLAYING"
      /\ \/ current_level' # current_level
         \/ GAME_STATE' = "GAME_WIN" /\ GAME_STATE # "GAME_WIN")
       => /\ pc = "door"
          /\ current_cores >= CORES_NEEDED
          /\ at_door
          /\ current_level' = current_level + 1 \/ GAME_STATE' = "GAME_WIN"]_vars

\* A door check has just replaced the level by the next one.
C5_Witness ==
  /\ pc = "top"
  /\ GAME_STATE = "PLAYING"
  /\ current_level = selected_level + 1
  /\ current_cores = 0
  /\ cores = CORES_NEEDED
  /\ frames > 0

\* C6: a crate leaves the crate collection only in the bullet pass, by the hit that
\* brings its health to 0 or below (the replacement of the level apart, which
\* brings new crates); a crate the player overlaps stays, its health unchanged.
C6_CrateLeavesByHitsOnly ==
  [][\A c \in DOMAIN crates \cap DOMAIN crates' :
       (crates[c].in_group /\ ~crates'[c].in_group)
          => (pc = "bullets" /\ crates'[c].health <= 0)]_vars

\* C7: a bullet is removed only by Bullet.update (at distance 0 of its live
\* target, or off the screen once the target is gone), by the bullet pass (on a
\* sentinel or a crate) or when the level is replaced; the pickup pass removes
\* none, so a bullet that overlaps only the player survives the frame.
C7_BulletRemoval ==
  [][Len(bullets') < Len(bullets) =>
       \/ pc \in {"update", "bullets"}
       \/ pc = "top" /\ GAME_STATE # "PLAYING" /\ GAME_STATE' = "PLAYING"
       \/ pc = "door" /\ current_level' # current_level]_vars

\* C8: in every level generate_level returns, the door tile is reachable from the
\* start tile by a 4-connected path of floor cells of the grid.
C8_DoorReachable ==
  gen.pc = "done" => Reachable(gen.grid, gen.start_pos, gen.door_tile)

\* C9: when sentinels touch the player while the swirl-shield and the power-up
\* shield are both active, every touching sentinel is destroyed, the health is
\* unchanged and the power-up shield stays active with its timer untouched.
C9_SwirlWinsOverShield ==
  [][(/\ pc = "contact"
      /\ nanobot.is_swirling
      /\ nanobot.shield_active
      /\ hit_sentinels' > 0)
       => /\ sentinels' = sentinels - hit_sentinels'
          /\ nanobot'.current_health = nanobot.current_health
          /\ nanobot'.shield_active
          /\ nanobot'.shield_timer = nanobot.shield_timer]_vars

\* The contact pass has just resolved a touch with both shields active.
C9_Witness ==
  /\ pc = "bullets"
  /\ hit_sentinels > 0
  /\ nanobot.is_swirling
  /\ nanobot.shield_active
  /\ nanobot.shield_timer > 0
  /\ sentinels = NumSentinels(current_level) - hit_sentinels

\* C10: when sentinels touch the player with the swirl-shield inactive and the
\* power-up shield active, every touching sentinel is destroyed and the shield is
\* consumed (inactive, timer 0); the shield absorbs exactly one contact: each
\* further sentinel of the same frame costs 10 health.
C10_ShieldAbsorbsOneContact ==
  [][(/\ pc = "contact"
      /\ ~nanobot.is_swirling
      /\ nanobot.shield_active
      /\ hit_sentinels' > 0)
       => /\ sentinels' = sentinels - hit_sentinels'
          /\ ~nanobot'.shield_active
          /\ nanobot'.shield_timer = 0
          /\ nanobot'.current_health = nanobot.current_health - 10 * (hit_sentinels' - 1)]_vars

\* The contact pass has just resolved two touches of one frame, the first on the
\* shield picked up in the frame before, the second on the bare player.
C10_Witness ==
  /\ pc = "bullets"
  /\ frames = 2
  /\ hit_sentinels = 2
  /\ powerups = << >>
  /\ ~nanobot.is_swirling
  /\ ~nanobot.shield_active
  /\ nanobot.multi_shot_timer = 0
  /\ sentinels = NumSentinels(current_level) - hit_sentinels
  /\ nanobot.current_health = nanobot.max_health - 10

\* C11: with SPACE held, every frame's Nanobot.update takes one swirl drain
\* (1/12 of a unit) off the ammo and never takes it below 0; the update that
\* brings the ammo to 0 clears is_swirling, so the contact pass of that frame
\* runs with the swirl-shield off, and a frame that starts with no ammo above 0
\* starts with is_swirling false although SPACE is still held.
C11_SwirlDrainsToZero ==
  [][/\ (pc = "update" /\ nanobot.is_swirling)
          => /\ nanobot'.ammo_count = nanobot.ammo_count - 1
             /\ nanobot'.ammo_count >= 0
             /\ nanobot'.ammo_count = 0 => ~nanobot'.is_swirling
     /\ (pc' = "contact" /\ nanobot'.ammo_count <= 0) => ~nanobot'.is_swirling
     /\ (pc = "top" /\ pc' = "update" /\ nanobot'.ammo_count <= 0)
          => ~nanobot'.is_swirling]_vars

\* The swirl has drained the ammo to 0 and a later frame has started with SPACE
\* held and the swirl-shield off.
C11_Witness ==
  /\ pc = "update"
  /\ frames > 100 * AmmoUnit
  /\ nanobot.ammo_count = 0
  /\ ~nanobot.is_swirling
  /\ nanobot.cooldown_timer = 0

\* C12: every level commit in the menu, on any level and after any earlier
\* playthrough, starts the playthrough with a full player: health 100, ammo 100
\* (less the shot the first frame may fire), no shield or multi-shot buff and
\* their timers at 0; health and ammo are carried over by door transitions only.
C12_MenuCommitResetsPlayer ==
  [][(pc = "top" /\ GAME_STATE = "MENU" /\ GAME_STATE' = "PLAYING")
       => /\ nanobot'.current_health = 100
          /\ nanobot'.ammo_count + AmmoUnit * Len(bullets') = 100 * AmmoUnit
          /\ ~nanobot'.shield_active
          /\ ~nanobot'.multi_shot_active
          /\ nanobot'.shield_timer = 0
          /\ nanobot'.multi_shot_timer = 0]_vars

\* C13: GAME_STATE changes only from MENU to PLAYING, from PLAYING to GAME_OVER
\* or to GAME_WIN, and from GAME_OVER or GAME_WIN to MENU, never from GAME_OVER
\* to GAME_WIN; a change to MENU leaves selected_level at 1.
C13_GameStateChanges ==
  [][GAME_STATE' # GAME_STATE
       => /\ << GAME_STATE, GAME_STATE' >> \in
               {<< "MENU", "PLAYING" >>, << "PLAYING", "GAME_OVER" >>,
                << "PLAYING", "GAME_WIN" >>, << "GAME_OVER", "MENU" >>,
                << "GAME_WIN", "MENU" >>}
          /\ GAME_STATE' = "MENU" => selected_level' = 1]_vars

\* C14: after every movement step, on every grid and from the start position
\* level setup gives, none of the four edge midpoints of the player's rect and
\* not the centre of the sentinel's rect lies in a wall cell.
C14_NoSamplePointInWall ==
  mv.pc # "idle" =>
     /\ \A p \in NanobotPoints(mv.nanobot) : PointTile(p) \notin mv.game_map
     /\ PointTile(Centre(mv.sentinel, SENTINEL_SIZE)) \notin mv.game_map

\* The player's last step was taken with a velocity toward a wall and has left
\* the rect where it was: the wall has blocked the step.
C14_Witness ==
  /\ mv.pc = "sentinel"
  /\ mv.velocity # << 0, 0 >>
  /\ \E p \in NanobotPoints(<< mv.nanobot[1] + mv.velocity[1], mv.nanobot[2] >>)
             \cup NanobotPoints(<< mv.nanobot[1], mv.nanobot[2] + mv.velocity[2] >>) :
        PointTile(p) \in mv.game_map

\* C15: collision is resolved axis by axis, x first: a step whose x displacement
\* is blocked and whose y displacement is not ends at (old x, old y + vy), and
\* a step whose x displacement is free and whose y displacement is blocked
\* ends at (old x + vx, old y); this holds of the player's four sample points
\* and of the sentinel's centre with the pixels its velocity amounts to.
C15_PerAxisSliding ==
  [][/\ (mv.pc = "nanobot" /\ mv'.pc = "sentinel") =>
          LET r == mv.nanobot
              v == mv'.velocity
              x_blocked == \E p \in NanobotPoints(<< r[1] + v[1], r[2] >>) :
                              PointTile(p) \in mv.game_map
              x == IF x_blocked THEN r[1] ELSE r[1] + v[1]
              y_blocked == \E p \in NanobotPoints(<< x, r[2] + v[2] >>) :
                              PointTile(p) \in mv.game_map
          IN /\ (x_blocked /\ ~y_blocked) => mv'.nanobot = << r[1], r[2] + v[2] >>
             /\ (~x_blocked /\ y_blocked) => mv'.nanobot = << r[1] + v[1], r[2] >>
     /\ (mv.pc = "sentinel" /\ mv'.pc = "nanobot") =>
          LET r == mv.sentinel
              n == << Truncate(r[1], mv'.target_v[1]), Truncate(r[2], mv'.target_v[2]) >>
              x_blocked == PointTile(Centre(<< n[1], r[2] >>, SENTINEL_SIZE)) \in mv.game_map
              x == IF x_blocked THEN r[1] ELSE n[1]
              y_blocked == PointTile(Centre(<< x, n[2] >>, SENTINEL_SIZE)) \in mv.game_map
          IN /\ (x_blocked /\ ~y_blocked) => mv'.sentinel = << r[1], n[2] >>
             /\ (~x_blocked /\ y_blocked) => mv'.sentinel = << n[1], r[2] >>]_vars

\* The player abuts the wall on its left after a step down and to the left: the
\* x displacement of the step would have put the left midpoint in the wall from
\* the row the step came from, where the rect itself was free.
C15_Witness ==
  /\ mv.pc = "sentinel"
  /\ mv.velocity = << -MOVE_SPEED, MOVE_SPEED >>
  /\ mv.nanobot[1] = TILE_SIZE
  /\ LET from == << mv.nanobot[1], mv.nanobot[2] - MOVE_SPEED >>
     IN /\ \A p \in NanobotPoints(from) : PointTile(p) \notin mv.game_map
        /\ \E p \in NanobotPoints(<< from[1] - MOVE_SPEED, from[2] >>) :
              PointTile(p) \in mv.game_map

\* C16: in every level generate_level returns, every cell of the outer ring of
\* the grid is a wall, the start tile and the door tile are floor cells strictly
\* inside the ring, and the two tiles differ.
C16_BorderStartDoor ==
  gen.pc = "done" =>
     /\ \A t \in Tiles :
           (t[1] \in {0, GRID_WIDTH - 1} \/ t[2] \in {0, GRID_HEIGHT - 1}) => t \in gen.grid
     /\ \A t \in {gen.start_pos, gen.door_tile} :
           /\ t \notin gen.grid
           /\ 0 < t[1] /\ t[1] < GRID_WIDTH - 1
           /\ 0 < t[2] /\ t[2] < GRID_HEIGHT - 1
     /\ gen.start_pos # gen.door_tile

\* A level is returned whose wall loop has drawn the anchor that is its start
\* tile and has set the cells next to its door tile.
C16_Witness ==
  /\ gen.pc = "done"
  /\ gen.start_pos = << 2, 2 >>
  /\ << gen.door_tile[1] - 1, gen.door_tile[2] - 1 >> \in gen.grid
  /\ << gen.door_tile[1], gen.door_tile[2] - 1 >> \in gen.grid

\* C17: generate_level(level) returns 2 + level sentinel positions, 5 + 2 * level
\* crate positions and CORES_NEEDED core positions, or as many as the eligible
\* tiles allow when they run out; the positions are the centres of pairwise
\* distinct floor tiles, none of them the start tile or the door tile.
C17_SpawnLists ==
  gen.pc = "done" =>
     LET eligible == {t \in Tiles : /\ t \notin gen.grid
                                    /\ t # gen.start_pos
                                    /\ t # gen.door_tile}
         all == gen.enemies_pos \o gen.crates_pos \o gen.cores_pos
         avail == Cardinality(eligible)
         e == 2 + gen.level_num
         c == 5 + 2 * gen.level_num
     IN /\ Len(gen.enemies_pos) = IF avail >= e THEN e ELSE avail
        /\ Len(gen.crates_pos) =
              IF avail >= e + c THEN c ELSE IF avail >= e THEN avail - e ELSE 0
        /\ Len(gen.cores_pos) =
              IF avail >= e + c + CORES_NEEDED THEN CORES_NEEDED
              ELSE IF avail >= e + c THEN avail - e - c ELSE 0
        /\ \A i \in DOMAIN all :
              \E t \in eligible :
                 all[i] = << t[1] * TILE_SIZE + TILE_SIZE \div 2,
                            t[2] * TILE_SIZE + TILE_SIZE \div 2 >>
        /\ \A i, j \in DOMAIN all : i # j => all[i] # all[j]

\* Level 10 is returned with its 12 sentinel, 25 crate and 3 core positions,
\* the sentinels drawn from one end of spawn_tiles and the cores from the other.
C17_Witness ==
  /\ gen.pc = "done"
  /\ gen.level_num = TOTAL_LEVELS
  /\ Len(gen.enemies_pos) = 2 + TOTAL_LEVELS
  /\ Len(gen.crates_pos) = 5 + 2 * TOTAL_LEVELS
  /\ Len(gen.cores_pos) = CORES_NEEDED
  /\ gen.enemies_pos[1][2] < gen.cores_pos[1][2]

\* C18: a level transition made by the door check leaves the player with health
\* min(100, health + 20) and ammo min(999, ammo + 50), both buffs inactive with
\* their timers at 0, is_swirling false and the core counter at 0, puts the
\* player on the start tile (off the door) and leaves only the sprites of the
\* new level: its sentinels, crates and cores, no bullet and no pickup.
C18_DoorTransition ==
  [][(pc = "door" /\ current_level' # current_level)
       => /\ nanobot'.current_health =
               IF nanobot.current_health + 20 > 100 THEN 100
                                                    ELSE nanobot.current_health + 20
          /\ nanobot'.ammo_count =
               IF nanobot.ammo_count + 50 * AmmoUnit > 999 * AmmoUnit
                 THEN 999 * AmmoUnit ELSE nanobot.ammo_count + 50 * AmmoUnit
          /\ ~nanobot'.shield_active /\ nanobot'.shield_timer = 0
          /\ ~nanobot'.multi_shot_active /\ nanobot'.multi_shot_timer = 0
          /\ ~nanobot'.is_swirling
          /\ current_cores' = 0
          /\ ~at_door'
          /\ sentinels' = 2 + current_level'
          /\ \A c \in DOMAIN crates' :
                crates'[c] = [health |-> CRATE_HEALTH, in_group |-> TRUE]
          /\ cores' = CORES_NEEDED
          /\ bullets' = << >>
          /\ powerups' = << >>]_vars

\* The door check has just replaced level 1 by level 2 for a player who was hit
\* three times on level 1 and has collected the pickup: the health is 70 + 20
\* and the ammo has the bonus of the transition.
C18_Witness ==
  /\ pc = "top"
  /\ GAME_STATE = "PLAYING"
  /\ current_level = 2
  /\ current_cores = 0
  /\ powerups = << >>
  /\ bullets = << >>
  /\ nanobot.current_health = 90
  /\ nanobot.ammo_count > 100 * AmmoUnit
  /\ ~nanobot.multi_shot_active
  /\ nanobot.multi_shot_timer = 0

\* C19: collecting an ammo pickup sets the ammo to min(999, ammo + 50) and
\* collecting a health pickup sets the health to min(max_health, health + 25);
\* no other field of the player changes.  Ammo 970 becomes 999 and health 90
\* becomes 100.
C19_PickupGains ==
  [][(pc = "powerups" /\ Len(powerups) = 1 /\ powerups' = << >>)
       => /\ powerups[1] = "ammo" =>
               nanobot' = [nanobot EXCEPT !.ammo_count =
                             IF @ + 50 * AmmoUnit > 999 * AmmoUnit
                               THEN 999 * AmmoUnit ELSE @ + 50 * AmmoUnit]
          /\ powerups[1] = "health" =>
               nanobot' = [nanobot EXCEPT !.current_health =
                             IF @ + 25 > nanobot.max_health
                               THEN nanobot.max_health ELSE @ + 25]]_vars

\* An ammo pickup has been collected and the ammo is at its cap; the player had
\* 970, the one ammo of PickupAmmos from which 50 more reach 999.
C19_Witness ==
  /\ pc = "door"
  /\ powerups = << >>
  /\ nanobot.ammo_count = 999 * AmmoUnit
  /\ nanobot.current_health = 90
  /\ nanobot.shield_timer = 100

\* C20: the bullet pass rolls the loot table once for every crate a hit destroys
\* and for no other hit, and adds to the map what the half-open bands give: a
\* shield or multi-shot power-up for a roll in [0, 0.20), an ammo pickup for
\* [0.20, 0.45), a health pickup for [0.45, 0.65), nothing for [0.65, 1.0); a hit
\* that leaves the crate standing adds nothing.
C20_LootBands ==
  [][pc = "bullets" =>
       LET destroyed == {c \in DOMAIN crates : crates[c].in_group /\ ~crates'[c].in_group}
           rs == loot_rolls'
           new == SubSeq(powerups', Len(powerups) + 1, Len(powerups'))
           count(kinds) == Cardinality({i \in DOMAIN new : new[i] \in kinds})
           rolled(lo, hi) == Cardinality({i \in DOMAIN rs : lo <= rs[i] /\ rs[i] < hi})
       IN /\ Len(rs) = Cardinality(destroyed)
          /\ Len(powerups') >= Len(powerups)
          /\ SubSeq(powerups', 1, Len(powerups)) = powerups
          /\ \A i \in DOMAIN new : new[i] \in {"shield", "multishot", "ammo", "health"}
          /\ count({"shield", "multishot"}) = rolled(0, 20)
          /\ count({"ammo"}) = rolled(20, 45)
          /\ count({"health"}) = rolled(45, 65)]_vars

\* The bullet pass has just destroyed the first crate with the roll 0.20, and an
\* ammo pickup lies on the map.
C20_Witness ==
  /\ pc = "cores"
  /\ loot_rolls = << 20 >>
  /\ powerups = << "ammo" >>
  /\ ~crates[1].in_group
  /\ crates[1].health = 0

\* C21: calculate_visible_tiles returns exactly the tiles that are floor cells
\* with their centre closer than 300 (1.5 * LIGHT_RADIUS) to the player's centre
\* or wall cells with their centre closer than 75 (1.5 * TILE_SIZE), and leaves
\* the grid as it was.
C21_VisibleTiles ==
  [][(vis.pc = "call" /\ vis'.pc = "done") =>
       LET c == vis.nanobot_center
           d2(t) == (t[1] * 50 + 25 - c[1]) * (t[1] * 50 + 25 - c[1])
                      + (t[2] * 50 + 25 - c[2]) * (t[2] * 50 + 25 - c[2])
       IN /\ vis'.game_map = vis.game_map
          /\ \A t \in Tiles :
                t \in vis'.visible_tiles <=>
                   \/ t \notin vis.game_map /\ d2(t) < 300 * 300
                   \/ t \in vis.game_map /\ d2(t) < 75 * 75
          /\ vis'.visible_tiles \subseteq Tiles]_vars

\* The call has returned for a player whose centre is on the edge between the
\* tiles 1 and 2 of row 1: the wall cell below is lit, the border cell at
\* exactly 75 is not, and of the floor cells of the row the one at 275 is lit
\* and the one at 325 is not.
C21_Witness ==
  /\ vis.pc = "done"
  /\ vis.nanobot_center = << 100, 75 >>
  /\ << 2, 2 >> \in vis.game_map
  /\ << 2, 2 >> \in vis.visible_tiles
  /\ << 0, 1 >> \notin vis.visible_tiles
  /\ << 7, 1 >> \in vis.visible_tiles
  /\ << 8, 1 >> \notin vis.visible_tiles

\* C22: a frame's firing step in which the mouse button is up, or there is no
\* target, or the cooldown is above 0, or the ammo is not above 0, or the
\* swirl-shield is on, leaves the ammo, the cooldown and the bullets as they
\* were.
C22_NoFireIsNoOp ==
  [][(/\ pc = "top" /\ pc' = "update" /\ GAME_STATE = "PLAYING"
      /\ ~(/\ mouse_click'
           /\ target_enemy'
           /\ nanobot.cooldown_timer = 0
           /\ nanobot.ammo_count > 0
           /\ ~nanobot'.is_swirling))
       => /\ nanobot'.ammo_count = nanobot.ammo_count
          /\ nanobot'.cooldown_timer = nanobot.cooldown_timer
          /\ bullets' = bullets]_vars

\* The firing step of the first frame has run with the button down, a target
\* and the cooldown at 0, but with no ammo: nothing was fired.
C22_Witness ==
  /\ pc = "update"
  /\ frames = 1
  /\ mouse_click
  /\ target_enemy
  /\ ~nanobot.is_swirling
  /\ nanobot.cooldown_timer = 0
  /\ nanobot.ammo_count = 0
  /\ bullets = << >>

\* C23: a frame's firing step with the button down, a target, the cooldown at
\* 0, ammo above 0 and the swirl-shield off sets the cooldown to FIRE_COOLDOWN
\* (15) and either takes 1 ammo and adds 1 bullet or, with the multi-shot buff
\* active and ammo still above 0 after the first unit, takes 2 ammo and adds 3
\* bullets; the bullets added all home on the target of that frame.
C23_SuccessfulFire ==
  [][(/\ pc = "top" /\ pc' = "update" /\ GAME_STATE = "PLAYING"
      /\ mouse_click'
      /\ target_enemy'
      /\ nanobot.cooldown_timer = 0
      /\ nanobot.ammo_count > 0
      /\ ~nanobot'.is_swirling)
       => LET n == Len(bullets)
              multi == nanobot.multi_shot_active /\ nanobot.ammo_count - 1 * AmmoUnit > 0
              added == IF multi THEN 3 ELSE 1
          IN /\ nanobot'.cooldown_timer = 15
             /\ nanobot'.ammo_count =
                   nanobot.ammo_count - (IF multi THEN 2 ELSE 1) * AmmoUnit
             /\ Len(bullets') = n + added
             /\ SubSeq(bullets', 1, n) = bullets
             /\ \A i \in (n + 1)..(n + added) :
                   /\ bullets'[i].homing
                   /\ bullets'[i].shot = bullets'[n + 1].shot
                   /\ \A j \in 1..n : bullets[j].shot # bullets'[i].shot]_vars

\* A multi-shot has just been fired from two units of ammo: three bullets are
\* in flight, the ammo is 0 and the cooldown is FIRE_COOLDOWN.
C23_Witness ==
  /\ pc = "update"
  /\ nanobot.multi_shot_active
  /\ nanobot.cooldown_timer = FIRE_COOLDOWN
  /\ nanobot.ammo_count = 0
  /\ Len(bullets) = 3
  /\ \A i \in DOMAIN bullets : bullets[i].homing /\ bullets[i].shot = frames - 1

C25_BuffLasts ==
  ~IsNone(nanobot) =>
     /\ nanobot.shield_active <=> since.shield < 300
     /\ nanobot.shield_timer = 300 - since.shield
     /\ nanobot.multi_shot_active <=> since.multishot < 600
     /\ nanobot.multi_shot_timer = 600 - since.multishot

\* The 300th update after the shield was picked up (in frame 1, where it took
\* the place of a shield with 100 frames left or of none) has just run: no
\* sentinel has touched the player, the level is still the first and the shield
\* is off.
C25_Witness ==
  /\ pc = "contact"
  /\ frames = 1 + ShieldFrames
  /\ current_level = 1
  /\ sentinels = NumSentinels(1)
  /\ powerups = << >>
  /\ ~nanobot.shield_active
  /\ nanobot.shield_timer = 0
  /\ nanobot.multi_shot_timer = 0
  /\ nanobot.current_health = nanobot.max_health

\* C30: after every step, and so after every pickup, player update, shield
\* consumption and level setup, shield_active holds exactly when shield_timer >
\* 0 and multi_shot_active exactly when multi_shot_timer > 0, with the timers
\* between 0 and 300 and between 0 and 600.
C30_BuffFlagsMatchTimers ==
  ~IsNone(nanobot) =>
     /\ nanobot.shield_active <=> nanobot.shield_timer > 0
     /\ nanobot.multi_shot_active <=> nanobot.multi_shot_timer > 0
     /\ 0 <= nanobot.shield_timer /\ nanobot.shield_timer <= 300
     /\ 0 <= nanobot.multi_shot_timer /\ nanobot.multi_shot_timer <= 600

\* A sentinel has just touched the player in the second frame and has used up
\* the shield that was picked up in the first: the flag and the timer are both
\* cleared, 299 frames before the timer would have run out.
C30_Witness ==
  /\ pc = "bullets"
  /\ frames = 2
  /\ hit_sentinels = 1
  /\ powerups = << >>
  /\ ~nanobot.shield_active
  /\ nanobot.shield_timer = 0
  /\ nanobot.multi_shot_timer = 0
  /\ nanobot.current_health = nanobot.max_health

\* C26: in the bullet pass no bullet does two things: a bullet that is removed
\* for hitting a sentinel does not also damage a crate, so the pass removes at
\* least one bullet for the sentinels it kills and one for every point of crate
\* health it takes; it kills no more sentinels than the contact pass has left;
\* and a crate takes no hit and draws no loot once it is destroyed.
C26_RemovedNotRevisited ==
  [][pc = "bullets" =>
       LET RECURSIVE Damage(_)
           Damage(S) == IF S = {} THEN 0
                        ELSE LET c == CHOOSE x \in S : TRUE
                             IN (crates[c].health - crates'[c].health) + Damage(S \ {c})
           destroyed == {c \in DOMAIN crates : crates[c].in_group /\ ~crates'[c].in_group}
       IN /\ (IF sentinels' < sentinels THEN 1 ELSE 0) + Damage(DOMAIN crates)
               <= Len(bullets) - Len(bullets')
          /\ sentinels' >= 0
          /\ \A c \in DOMAIN crates :
                /\ ~crates[c].in_group => crates'[c] = crates[c]
                /\ crates'[c].health >= 0
          /\ Len(loot_rolls') <= Cardinality(destroyed)]_vars

\* C27: once the contact pass of a frame has set GAME_OVER, the bullet pass, the
\* core pass, the pickup pass and the door check of that frame change nothing:
\* no crate is damaged, no core is counted, no pickup is applied, the level
\* number stays and no level is set up.
C27_GameOverEndsFrame ==
  [][(pc \in {"bullets", "cores", "powerups", "door"} /\ GAME_STATE = "GAME_OVER")
       => /\ crates' = crates
          /\ cores' = cores
          /\ current_cores' = current_cores
          /\ powerups' = powerups
          /\ nanobot' = nanobot
          /\ sentinels' = sentinels
          /\ current_level' = current_level]_vars

\* C28: every frame that is simulated in state PLAYING starts with the player's
\* health above 0.
C28_AliveWhilePlaying ==
  (pc = "update" /\ GAME_STATE = "PLAYING") => nanobot.current_health > 0

\* C29: within a level current_cores plus the number of cores still on the map
\* is the number of cores the level was set up with, CORES_NEEDED: a core is
\* counted when it leaves the map and only then, and current_cores never
\* exceeds CORES_NEEDED.
C29_CoresConserved ==
  ~IsNone(nanobot) =>
     /\ current_cores + cores = CORES_NEEDED
     /\ 0 <= current_cores /\ current_cores <= CORES_NEEDED
     /\ 0 <= cores

\* The third frame has ended on level 1 with every core of the level counted
\* and none left on the map; the player is not on the door.
C29_Witness ==
  /\ pc = "top"
  /\ GAME_STATE = "PLAYING"
  /\ frames = CORES_NEEDED
  /\ current_level = 1
  /\ current_cores = CORES_NEEDED
  /\ cores = 0
  /\ ~at_door

====
